---- MODULE Spec2Model ----
(***************************************************************************)
(* The popup text list of clink (lib/src/textlist_impl.cpp): the           *)
(* textlist_impl object, its item store, its column extractor, its input   *)
(* handler and the activate protocol, as a state machine.                  *)
(*                                                                         *)
(* Text is a sequence of code points (naturals).  A C string ends at its   *)
(* first NUL (0).  The object is the record tl, one field per data member; *)
(* assert_failed is a ghost field: the set of assert() statements whose    *)
(* condition was false (an NDEBUG build continues past them).              *)
(***************************************************************************)
EXTENDS Integers, Sequences, FiniteSets, TLC

\* ----------------------------------------------------------------- bounds
\* The largest number of entries a caller passes to activate.
MaxCount == 3
\* The longest needle typed during one activation.
MaxNeedle == 2

\* ------------------------------------------------------ program constants
min_screen_cols == 20
pagesize == 65536
\* textlist_impl.h: the size of column_text::column.
max_columns == 3
\* textlist_impl.h: offset of page::data, after the next pointer.
page_data_offset == 8

\* A null char pointer, a null handle, a null entries array.
NullText == <<-1>>
NullPtr == [page |-> 0, off |-> 0]
NullEntries == <<NullText>>

Min(a, b) == IF a < b THEN a ELSE b
Max(a, b) == IF a > b THEN a ELSE b

\* C's int division truncates toward zero.
CDiv(a, b) == IF a >= 0 THEN a \div b ELSE -((-a) \div b)

\* --------------------------------------------------------------- text
\* strlen: the bytes before the first NUL of a buffer.
RECURSIVE CStr(_)
CStr(buf) ==
    IF buf = <<>> \/ Head(buf) = 0 THEN <<>> ELSE <<Head(buf)>> \o CStr(Tail(buf))

\* The buffer after the first NUL (ptr += strlen(ptr) + 1).
RECURSIVE AfterNul(_)
AfterNul(buf) ==
    IF buf = <<>> THEN <<>>
    ELSE IF Head(buf) = 0 THEN Tail(buf) ELSE AfterNul(Tail(buf))

\* clink_wcwidth: cells of a code point (0 combining, 2 wide, else 1).
clink_wcwidth(c) ==
    IF c >= 768 /\ c <= 879 THEN 0
    ELSE IF c >= 19968 /\ c <= 40959 THEN 2
    ELSE 1

\* The item text and its cell count: control characters become ^X.
RECURSIVE make_item(_)
make_item(in) ==
    IF in = <<>> THEN [out |-> <<>>, cells |-> 0]
    ELSE LET c == Head(in)
             rest == make_item(Tail(in))
         IN IF c < 32
            THEN [out |-> <<94, c + 64>> \o rest.out, cells |-> 2 + rest.cells]
            ELSE [out |-> <<c>> \o rest.out, cells |-> clink_wcwidth(c) + rest.cells]

\* ecma48_iter: the text with its escape sequences (ESC [ ... final byte, or
\* ESC and one byte) cut out; what is left is the type_chars codes.
RECURSIVE SkipCsi(_)
SkipCsi(s) ==
    IF s = <<>> THEN <<>>
    ELSE IF Head(s) >= 64 /\ Head(s) <= 126 THEN Tail(s) ELSE SkipCsi(Tail(s))

RECURSIVE ecma48_chars(_)
ecma48_chars(s) ==
    IF s = <<>> THEN <<>>
    ELSE IF Len(s) = 1 /\ Head(s) = 27 THEN <<>>
    ELSE IF Head(s) = 27 /\ s[2] = 91 THEN ecma48_chars(SkipCsi(Tail(Tail(s))))
    ELSE IF Head(s) = 27 THEN ecma48_chars(Tail(Tail(s)))
    ELSE <<Head(s)>> \o ecma48_chars(Tail(s))

\* The per-character loop of make_column over the type_chars codes.
RECURSIVE make_column_chars(_)
make_column_chars(in) ==
    IF in = <<>> THEN [out |-> <<>>, cells |-> 0]
    ELSE LET c == Head(in)
             rest == make_column_chars(Tail(in))
         IN IF c = 13 \/ c = 10
            THEN [out |-> <<32>> \o rest.out, cells |-> 1 + rest.cells]
            ELSE IF c < 32
            THEN [out |-> <<94, c + 64>> \o rest.out, cells |-> 2 + rest.cells]
            ELSE [out |-> <<c>> \o rest.out, cells |-> clink_wcwidth(c) + rest.cells]

make_column(in) == make_column_chars(ecma48_chars(in))

\* limit_cells: the characters of in are taken one by one, each adding its
\* cells, until the cells reach the limit; len is the number of characters
\* taken and cells their cells.
RECURSIVE limit_cells_from(_, _, _, _)
limit_cells_from(in, limit, taken, cells) ==
    IF taken >= Len(in) THEN [len |-> taken, cells |-> cells]
    ELSE LET sum == cells + clink_wcwidth(in[taken + 1])
         IN IF sum >= limit THEN [len |-> taken + 1, cells |-> sum]
            ELSE limit_cells_from(in, limit, taken + 1, sum)

limit_cells(in, limit) == limit_cells_from(in, limit, 0, 0)

\* _rl_find_prev_mbchar(.., MB_FIND_NONZERO): the start of the last character
\* of s that has a width, its trailing zero-width characters included.
RECURSIVE rl_find_prev_mbchar(_)
rl_find_prev_mbchar(s) ==
    IF s = <<>> THEN 0
    ELSE IF clink_wcwidth(s[Len(s)]) = 0 /\ Len(s) > 1
         THEN rl_find_prev_mbchar(SubSeq(s, 1, Len(s) - 1))
         ELSE Len(s) - 1

\* str_compare_scope: 0 exact, 1 caseless, 2 relaxed (- and _ are equal).
FoldChar(mode, c) ==
    LET lower == IF mode >= 1 /\ c >= 65 /\ c <= 90 THEN c + 32 ELSE c
    IN IF mode = 2 /\ lower = 95 THEN 45 ELSE lower

\* str_compare(needle, hay): -1 when the strings are equal, else the index of
\* the first difference.
RECURSIVE str_compare_from(_, _, _, _)
str_compare_from(mode, a, b, at) ==
    IF a = <<>> /\ b = <<>> THEN -1
    ELSE IF a = <<>> \/ b = <<>> THEN at
    ELSE IF FoldChar(mode, Head(a)) # FoldChar(mode, Head(b)) THEN at
    ELSE str_compare_from(mode, Tail(a), Tail(b), at + 1)

str_compare(mode, a, b) == str_compare_from(mode, a, b, 0)

\* strstr_compare: the needle is a prefix of some suffix of the haystack.
RECURSIVE strstr_compare(_, _, _)
strstr_compare(mode, needle, haystack) ==
    IF haystack = NullText \/ haystack = <<>> THEN FALSE
    ELSE LET cmp == str_compare(mode, needle, haystack)
         IN IF cmp = -1 \/ cmp = Len(needle) THEN TRUE
            ELSE strstr_compare(mode, needle, Tail(haystack))

\* atoi of a string of digits.
RECURSIVE atoi(_)
atoi(s) ==
    IF s = <<>> THEN 0 ELSE atoi(SubSeq(s, 1, Len(s) - 1)) * 10 + (s[Len(s)] - 48)

\* _itoa_s(n, .., 10) for n >= 0.
RECURSIVE itoa(_)
itoa(n) ==
    IF n < 10 THEN <<48 + n>> ELSE itoa(n \div 10) \o <<48 + (n % 10)>>

\* strncmp(a, b, n) == 0
strncmp_eq(a, b, n) ==
    SubSeq(a, 1, Min(n, Len(a))) = SubSeq(b, 1, Min(n, Len(b)))

\* "%-Ns": the string padded on the right with spaces to n characters.
PadRight(s, n) == s \o [i \in 1..Max(0, n - Len(s)) |-> 32]

\* ------------------------------------------------------------ item store
\* m_page: the pages, newest first; a page is its address (id) and the
\* strings written into it, each at its offset.  A handle is the page and
\* the offset returned by add.
item_store_init == [m_page |-> <<>>, m_front |-> 0, m_back |-> 0]

item_store_add(s, item) ==
    LET len == Len(item) + 1
        fresh == len > s.m_back - s.m_front
        pages == IF fresh
                 THEN <<[id |-> Len(s.m_page) + 1, data |-> <<>>]>> \o s.m_page
                 ELSE s.m_page
        front == IF fresh THEN page_data_offset ELSE s.m_front
        back == IF fresh THEN pagesize ELSE s.m_back
        p == [page |-> pages[1].id, off |-> front]
    IN [store |-> [m_page |-> [pages EXCEPT ![1].data = @ \o <<[off |-> front, text |-> item]>>],
                   m_front |-> front + len,
                   m_back |-> back],
        ptr |-> p]

item_store_clear(s) == item_store_init

\* The string a handle points at.
Deref(s, p) ==
    IF p = NullPtr THEN NullText
    ELSE LET pg == CHOOSE g \in {s.m_page[k] : k \in 1..Len(s.m_page)} : g.id = p.page
             e == CHOOSE x \in {pg.data[k] : k \in 1..Len(pg.data)} : x.off = p.off
         IN e.text

\* ------------------------------------------------------ column extractor
addl_columns_init ==
    [m_rows |-> <<>>, m_longest |-> [c \in 1..max_columns |-> 0]]

\* The field before the first tab of s, and what follows the tab (null when
\* there is no tab: strchr returned null).
RECURSIVE BeforeTab(_)
BeforeTab(s) ==
    IF s = <<>> \/ Head(s) = 9 THEN <<>> ELSE <<Head(s)>> \o BeforeTab(Tail(s))

RECURSIVE AfterTab(_)
AfterTab(s) ==
    IF s = <<>> THEN NullText
    ELSE IF Head(s) = 9 THEN Tail(s) ELSE AfterTab(Tail(s))

\* The while loop of add_entry: acc is [store, longest, column], col counts
\* from 0.
\* One column stored: made is what make_column returned, added what
\* m_store.add returned.
add_entry_column(acc, col, made, added) ==
    [store |-> added.store,
     longest |-> [acc.longest EXCEPT ![col + 1] = Max(@, made.cells)],
     column |-> [acc.column EXCEPT ![col + 1] = added.ptr]]

add_entry_made(acc, col, made) ==
    add_entry_column(acc, col, made, item_store_add(acc.store, made.out))

RECURSIVE add_entry_loop(_, _, _)

\* A loop that stops after its first column.
add_entry_next_stop(next, tab, col) == next

\* ptr = tab; if (!ptr) break; col++; ptr++;
add_entry_next(next, tab, col) ==
    IF tab = NullText THEN next ELSE add_entry_loop(next, tab, col + 1)

add_entry_loop(acc, ptr, col) ==
    IF ~(col < max_columns) THEN acc
    ELSE add_entry_next(add_entry_made(acc, col, make_column(BeforeTab(ptr))),
                        AfterTab(ptr), col)

\* m_rows.emplace_back: the row acc.column is stored.
add_entry_row(display, columns, acc) ==
    [display |-> display,
     columns |-> [m_rows |-> Append(columns.m_rows, acc.column),
                  m_longest |-> acc.longest],
     store |-> acc.store]

\* The columns of the tail, none when the tail is empty.
add_entry_tail(columns, store, tail) ==
    IF tail # <<>>
    THEN add_entry_loop([store |-> store,
                         longest |-> columns.m_longest,
                         column |-> [c \in 1..max_columns |-> NullPtr]],
                        tail, 0)
    ELSE [store |-> store,
          longest |-> columns.m_longest,
          column |-> [c \in 1..max_columns |-> NullPtr]]

\* add_entry: the display text, and the columns and the store afterwards.
add_entry(columns, store, ptr) ==
    add_entry_row(CStr(AfterNul(ptr)), columns,
                  add_entry_tail(columns, store, CStr(AfterNul(AfterNul(ptr)))))

addl_columns_clear(columns) == addl_columns_init

\* get_col_text(row, col), rows and columns counted from 0.
get_col_text(columns, store, row, col) == Deref(store, columns.m_rows[row + 1][col + 1])

\* ------------------------------------------------------- the popup object
\* popup_results::clear, and the value a popup_result converts to.
popup_results_clear == [m_result |-> "cancel", m_index |-> -1, m_text |-> <<>>]
popup_results_of(result) == [popup_results_clear EXCEPT !.m_result = result]

\* No frame drawn yet (ghost): nothing written, the cursor not moved, no row
\* of the list on the screen.
NoFrame ==
    [kind |-> "none", border |-> FALSE, rows |-> {}, down |-> 0, up |-> 0,
     column |-> "untouched", screen |-> <<>>, cells |-> <<>>]

\* The object as constructed: the member initializers of textlist_impl.h.
textlist_init ==
    [m_screen_cols |-> 80, m_screen_rows |-> 25, m_visible_rows |-> 0,
     m_default_title |-> <<>>, m_override_title |-> <<>>, m_has_override_title |-> FALSE,
     m_count |-> 0, m_entries |-> NullEntries, m_infos |-> <<>>, m_items |-> <<>>,
     m_longest |-> 0, m_columns |-> addl_columns_init,
     m_history_mode |-> FALSE, m_win_history |-> FALSE, m_has_columns |-> FALSE,
     m_reverse |-> FALSE,
     m_top |-> 0, m_index |-> 0, m_prev_displayed |-> -1,
     m_needle |-> <<>>, m_needle_is_number |-> FALSE, m_input_clears_needle |-> FALSE,
     m_store |-> item_store_init,
     m_active |-> FALSE, m_results |-> popup_results_clear,
     m_buffer |-> FALSE, m_printer |-> FALSE,
     assert_failed |-> {}, frame |-> NoFrame]

\* assert(cond): a false condition is recorded and execution goes on.
expect(t, cond, name) ==
    IF cond THEN t ELSE [t EXCEPT !.assert_failed = @ \cup {name}]

\* set_top that does not ask for a full redraw.
set_top_no_redraw(t, top) ==
    LET a1 == expect(t, top >= 0, "set_top: top >= 0")
        a2 == expect(a1, top <= Max(0, t.m_count - t.m_visible_rows), "set_top: top <= max")
    IN [a2 EXCEPT !.m_top = top]

set_top(t, top) ==
    LET a1 == expect(t, top >= 0, "set_top: top >= 0")
        a2 == expect(a1, top <= Max(0, t.m_count - t.m_visible_rows), "set_top: top <= max")
    IN IF top # t.m_top
       THEN [a2 EXCEPT !.m_top = top, !.m_prev_displayed = -1]
       ELSE a2

\* The two assertions that end update_top.
update_top_asserts(t) ==
    expect(expect(t, t.m_top >= 0, "update_top: m_top >= 0"),
           t.m_top <= Max(0, t.m_count - t.m_visible_rows), "update_top: m_top <= max")

\* update_top that never moves top up to the selection.
update_top_only_down(t) ==
    update_top_asserts(IF t.m_top < Max(0, t.m_index - (Min(t.m_count, t.m_visible_rows) - 1))
                       THEN set_top(t, Max(0, t.m_index - (Min(t.m_count, t.m_visible_rows) - 1)))
                       ELSE t)

\* update_top without its scrolling.
update_top_no_scroll(t) == update_top_asserts(t)

update_top(t) ==
    LET y == t.m_index
        rows == Min(t.m_count, t.m_visible_rows)
        top == Max(0, y - (rows - 1))
    IN update_top_asserts(IF t.m_top > y THEN set_top(t, y)
                          ELSE IF t.m_top < top THEN set_top(t, top)
                          ELSE t)

\* update_layout without the check of the screen's width.
update_layout_any_width(t) ==
    [t EXCEPT !.m_visible_rows =
        Min(IF t.m_history_mode THEN 20 ELSE 10, CDiv(t.m_screen_rows, 2) - 4)]

update_layout(t) ==
    LET slop_rows == 2
        border_rows == 2
        target_rows == IF t.m_history_mode THEN 20 ELSE 10
        rows == Min(target_rows, CDiv(t.m_screen_rows, 2) - border_rows - slop_rows)
    IN [t EXCEPT !.m_visible_rows = IF t.m_screen_cols <= min_screen_cols THEN 0 ELSE rows]

\* addl_columns::get_col_width
get_col_width(columns, col) == columns.m_longest[col + 1]

\* update_display: the length of the number of the last row, in history mode.
max_num_len(u) ==
    IF u.m_history_mode
    THEN Len(itoa(IF u.m_infos # <<>> THEN u.m_infos[u.m_count].index + 1 ELSE u.m_count))
    ELSE 0

\* update_display: the loop that adds the non-empty columns from column i on.
RECURSIVE longest_columns(_, _)
longest_columns(u, i) ==
    IF i >= max_columns THEN 0
    ELSE (IF get_col_width(u.m_columns, i) # 0 THEN 2 + get_col_width(u.m_columns, i) ELSE 0)
         + longest_columns(u, i + 1)

\* update_display: the value of longest before the floor of 40 is applied.
longest_needed(u, n) ==
    u.m_longest + (IF n # 0 THEN n + 2 ELSE 0)
    + (IF u.m_has_columns THEN longest_columns(u, 0) ELSE 0)

\* longest with the floor of 40 applied before the columns are added.
longest_floor_first(u) ==
    Max(u.m_longest + (IF max_num_len(u) # 0 THEN max_num_len(u) + 2 ELSE 0), 40)
    + (IF u.m_has_columns THEN longest_columns(u, 0) ELSE 0)

\* update_display: longest, the width of the content of a row.
longest(u) == Max(longest_needed(u, max_num_len(u)), 40)

effective_screen_cols(u) ==
    IF u.m_screen_cols < 40 THEN u.m_screen_cols ELSE Max(40, u.m_screen_cols - 4)

\* update_display: col_width, the width of the box with its two borders.
col_width(u) == Min(longest(u) + 2, effective_screen_cols(u))

\* The clamping of x that every cursor column goes through.
left_clamped(x, width, center_x, effective, screen_cols) ==
    LET x1 == IF x + width > center_x + effective THEN screen_cols - center_x - width ELSE x
    IN IF x1 < center_x THEN center_x ELSE x1

\* The placement with the floor at center_x left out.
left_column_no_floor(u, cursor_x) ==
    LET width == col_width(u)
        center_x == CDiv(u.m_screen_cols - effective_screen_cols(u), 2)
        x == cursor_x - CDiv(width + 1, 2)
    IN IF x + width > center_x + effective_screen_cols(u)
       THEN u.m_screen_cols - center_x - width ELSE x

\* update_display: x, the column of the left border, for the cursor column
\* csbi.dwCursorPosition.X.
left_column(u, cursor_x) ==
    left_clamped(cursor_x - CDiv(col_width(u) + 1, 2), col_width(u),
                 CDiv(u.m_screen_cols - effective_screen_cols(u), 2),
                 effective_screen_cols(u), u.m_screen_cols)

\* update_display: the cells of the history number, the colon and the mark
\* of row i, which are also what they take from spaces.
row_number_cells(u, i) ==
    IF u.m_history_mode
    THEN Max(max_num_len(u),
             Len(itoa((IF u.m_infos # <<>> THEN u.m_infos[i + 1].index ELSE i) + 1))) + 2
    ELSE 0

\* update_display: the loop that prints the columns of row i from column col
\* on, with spaces cells left: the cells printed, added to printed, and the
\* spaces left after the loop.
RECURSIVE row_columns(_, _, _, _, _)
row_columns(u, i, col, spaces, printed) ==
    IF col >= max_columns \/ spaces <= 0 THEN [spaces |-> spaces, printed |-> printed]
    ELSE LET text == get_col_text(u.m_columns, u.m_store, i, col)
             got == limit_cells(<<32, 32>> \o (IF text = NullText THEN <<>> ELSE text), spaces)
             pad == Min(spaces - got.cells,
                        get_col_width(u.m_columns, col) - (got.cells - 2))
         IN row_columns(u, i, col + 1,
                        spaces - got.cells - (IF pad > 0 THEN pad ELSE 0),
                        printed + got.cells + (IF pad > 0 THEN pad ELSE 0))

\* The row after its main text: the columns, and make_spaces(spaces).
row_tail(u, i, spaces, printed) ==
    LET after == IF u.m_has_columns THEN row_columns(u, i, 0, spaces, printed)
                 ELSE [spaces |-> spaces, printed |-> printed]
    IN after.printed + (IF after.spaces > 0 THEN after.spaces ELSE 0)

\* The row after its number: the main text, cut by limit_cells.
row_text(u, i, spaces, printed, got) ==
    row_tail(u, i, spaces - got.cells, printed + got.cells)

\* update_display: the cells a rewritten row i prints in a box of width
\* cells, its two borders included.
row_cells(u, i, width) ==
    2 + row_text(u, i, width - 2 - row_number_cells(u, i), row_number_cells(u, i),
                 limit_cells(Deref(u.m_store, u.m_items[i + 1]),
                             width - 2 - row_number_cells(u, i)))

\* The screen row of a list row that was never written.
BlankRow == [item |-> -1, selected |-> FALSE]

\* The screen rows of the list after a frame: a row that is rewritten shows
\* its item, highlighted when it is the selected one; a row that is visited
\* and not rewritten keeps what the screen showed there.
painted(u, visited, drawn) ==
    [r \in 1..Cardinality(visited) |->
        IF u.m_top + r - 1 \in drawn
        THEN [item |-> u.m_top + r - 1, selected |-> (u.m_top + r - 1 = u.m_index)]
        ELSE IF r <= Len(u.frame.screen) THEN u.frame.screen[r] ELSE BlankRow]

\* A display_list that rewrites every row in view and the border in every
\* frame.
display_list_full(u) ==
    LET visited == {i \in u.m_top..(u.m_top + u.m_visible_rows - 1) : i < u.m_count}
    IN [u EXCEPT !.m_has_override_title = (u.m_override_title # <<>>),
                 !.m_prev_displayed = u.m_index,
                 !.frame = [kind |-> "list", border |-> TRUE, rows |-> visited,
                            down |-> 2 + Cardinality(visited),
                            up |-> 2 + Cardinality(visited),
                            column |-> "restored",
                            screen |-> painted(u, visited, visited),
                            cells |-> [i \in visited |-> row_cells(u, i, col_width(u))]]]

\* update_display: the state it changes, and the frame it writes (ghost): the
\* rows it rewrites, whether it draws the border, the lines the cursor is
\* moved down by "\n" and rl_crlf and back up by the value of up, the column
\* SetConsoleCursorPosition leaves the cursor in, the rows on the screen, and
\* the cells each rewritten row prints.
display_list(u) ==
    LET draw_border == (u.m_prev_displayed < 0) \/ Len(u.m_override_title) > 0
                       \/ u.m_has_override_title
        visited == {i \in u.m_top..(u.m_top + u.m_visible_rows - 1) : i < u.m_count}
        drawn == {i \in visited : u.m_prev_displayed < 0 \/ i = u.m_index
                                  \/ i = u.m_prev_displayed}
    IN [u EXCEPT !.m_has_override_title = (u.m_override_title # <<>>),
                 !.m_prev_displayed = u.m_index,
                 !.frame = [kind |-> "list", border |-> draw_border, rows |-> drawn,
                            down |-> 1 + Cardinality(visited) + (IF draw_border THEN 1 ELSE 0),
                            up |-> 1 + Cardinality(visited) + (IF draw_border THEN 1 ELSE 0),
                            column |-> "restored",
                            screen |-> painted(u, visited, drawn),
                            cells |-> [i \in drawn |-> row_cells(u, i, col_width(u))]]]

update_display(t) ==
    IF t.m_visible_rows > 0
    THEN IF t.m_active /\ t.m_count > 0
         THEN display_list(update_top(t))
         ELSE [t EXCEPT !.m_prev_displayed = -1,
                        !.frame = [kind |-> "cleared", border |-> FALSE, rows |-> {},
                                   down |-> 1, up |-> 1, column |-> "restored",
                                   screen |-> <<>>, cells |-> <<>>]]
    ELSE t

\* cancel that stores the result and leaves the popup active.
cancel_stays_active(t, result) ==
    [expect(t, t.m_active, "cancel: m_active") EXCEPT
        !.m_results = IF (result = "use" \/ result = "select")
                         /\ t.m_index >= 0 /\ t.m_index < t.m_count
                      THEN [popup_results_of(result) EXCEPT
                               !.m_index = t.m_index,
                               !.m_text = CStr(t.m_entries[t.m_index + 1])]
                      ELSE popup_results_of(result)]

cancel(t, result) ==
    LET a == expect(t, t.m_active, "cancel: m_active")
        r == popup_results_of(result)
        accepted == (result = "use" \/ result = "select")
                    /\ t.m_index >= 0 /\ t.m_index < t.m_count
    IN [a EXCEPT !.m_results = IF accepted
                               THEN [r EXCEPT !.m_index = t.m_index,
                                              !.m_text = CStr(t.m_entries[t.m_index + 1])]
                               ELSE r,
                 !.m_active = FALSE]

reset(t) ==
    [t EXCEPT !.m_visible_rows = 0,
              !.m_default_title = <<>>,
              !.m_override_title = <<>>,
              !.m_has_override_title = FALSE,
              !.m_count = 0,
              !.m_entries = NullEntries,
              !.m_infos = <<>>,
              !.m_items = <<>>,
              !.m_longest = 0,
              !.m_columns = addl_columns_clear(t.m_columns),
              !.m_history_mode = FALSE,
              !.m_win_history = FALSE,
              !.m_has_columns = FALSE,
              !.m_top = 0,
              !.m_index = 0,
              !.m_prev_displayed = -1,
              !.m_needle = <<>>,
              !.m_needle_is_number = FALSE,
              !.m_input_clears_needle = FALSE,
              !.m_store = item_store_clear(t.m_store)]

\* The gather loop of activate, from entry i (counted from 0) on.
gather_stored(t, ent, made, added) ==
    [t EXCEPT !.m_longest = Max(@, made.cells),
              !.m_columns = ent.columns,
              !.m_store = added.store,
              !.m_items = Append(@, added.ptr)]

gather_made(t, ent, made) == gather_stored(t, ent, made, item_store_add(ent.store, made.out))

gather_entry(t, ent) == gather_made(t, ent, make_item(ent.display))

RECURSIVE gather_items(_, _, _)
gather_items(t, i, has_columns) ==
    IF ~(i < t.m_count) THEN t
    ELSE gather_items(gather_entry(t, IF has_columns
                                      THEN add_entry(t.m_columns, t.m_store, t.m_entries[i + 1])
                                      ELSE [display |-> CStr(t.m_entries[i + 1]),
                                            columns |-> t.m_columns, store |-> t.m_store]),
                      i + 1, has_columns)

\* The no-room return without putting the flags back.
activate_no_room_keeps_flags(t) == t

\* "Make sure there's room" failed: the flags are put back.
activate_no_room(t) ==
    [t EXCEPT !.m_reverse = FALSE, !.m_history_mode = FALSE, !.m_win_history = FALSE]

\* "Make sure there's room": the flags are set and the layout computed.
activate_layout(t, a) ==
    update_layout([t EXCEPT !.m_reverse = a.reverse,
                            !.m_history_mode = (a.history_mode # 0),
                            !.m_win_history = (a.history_mode = 2)])

\* "Gather the items", and the title.
activate_gather(t, a) ==
    [gather_items([t EXCEPT !.m_entries = a.entries,
                            !.m_infos = a.infos,
                            !.m_count = a.count],
                  0, a.has_columns)
        EXCEPT !.m_has_columns = a.has_columns,
               !.m_default_title = IF a.title # <<>> THEN a.title ELSE @]

\* "Initialize the view".
activate_view(t, index) ==
    IF index < 0
    THEN [t EXCEPT !.m_index = t.m_count - 1,
                   !.m_top = Max(0, t.m_count - t.m_visible_rows)]
    ELSE [t EXCEPT !.m_index = index,
                   !.m_top = Max(0, Min(index - CDiv(t.m_visible_rows, 2),
                                        t.m_count - t.m_visible_rows))]

\* The popup opens and its first frame is drawn.
activate_open(t) ==
    update_display([expect(t, ~t.m_active, "activate: !m_active") EXCEPT !.m_active = TRUE])

activate_failed(t) == [t |-> t, entered |-> FALSE, ret |-> popup_results_of("error")]

\* After the layout: no room, or the popup is entered.
activate_room(t, a) ==
    IF t.m_visible_rows <= 0
    THEN activate_failed(activate_no_room(t))
    ELSE [t |-> activate_open(activate_view(activate_gather(t, a), a.index)),
          entered |-> TRUE, ret |-> popup_results_clear]

\* After reset() and m_results.clear(): the checks of the arguments and of
\* the host.
activate_checks(t, a, macrodef) ==
    IF ~t.m_buffer THEN activate_failed(expect(t, FALSE, "activate: m_buffer"))
    ELSE IF a.entries = NullEntries \/ a.count <= 0 THEN activate_failed(t)
    ELSE IF macrodef THEN activate_failed(t)
    ELSE activate_room(activate_layout(t, a), a)

\* activate up to the call of the dispatcher: the object afterwards, whether
\* the popup was entered, and the result returned when it was not.
\* a is the arguments; macrodef is RL_ISSTATE(RL_STATE_MACRODEF).
activate(t, a, macrodef) ==
    activate_checks([reset(t) EXCEPT !.m_results = popup_results_clear], a, macrodef)

\* The cancel after dispatch, with the kind error.
activate_left_as_error(t) == IF t.m_active THEN cancel(t, "error") ELSE t

\* if (m_active) cancel(popup_result::cancel);
activate_left(t) == IF t.m_active THEN cancel(t, "cancel") ELSE t

\* The final frame, the results handed out, reset().
activate_results(shown) ==
    [t |-> [reset(shown) EXCEPT !.m_results = popup_results_clear],
     ret |-> shown.m_results]

\* The final frame after the dispatcher has returned.
activate_final(t) ==
    update_display(expect(t, ~t.m_active, "activate: !m_active after dispatch"))

\* activate after the dispatcher has returned: the object afterwards and the
\* result returned.
activate_leave(t) == activate_results(activate_final(activate_left(t)))

\* on_terminal_resize without the cancel.
on_terminal_resize_no_cancel(t, columns, rows) ==
    [t EXCEPT !.m_screen_cols = columns, !.m_screen_rows = rows]

\* on_terminal_resize that computes the layout again.
on_terminal_resize_relayout(t, columns, rows) ==
    LET sized == update_layout([t EXCEPT !.m_screen_cols = columns, !.m_screen_rows = rows])
    IN IF sized.m_active THEN cancel(sized, "cancel") ELSE sized

on_terminal_resize(t, columns, rows) ==
    LET sized == [t EXCEPT !.m_screen_cols = columns, !.m_screen_rows = rows]
    IN IF sized.m_active THEN cancel(sized, "cancel") ELSE sized

on_begin_line(t, columns, rows) ==
    update_layout([t EXCEPT !.m_buffer = TRUE, !.m_printer = TRUE,
                            !.m_screen_cols = columns, !.m_screen_rows = rows])

on_end_line(t) == [t EXCEPT !.m_buffer = FALSE, !.m_printer = FALSE]

\* ------------------------------------------------------------ on_input
advance_index(i, direction, max_count) ==
    LET j == i + direction
    IN IF direction < 0
       THEN (IF j < 0 THEN max_count - 1 ELSE j)
       ELSE (IF j >= max_count THEN 0 ELSE j)

InRange(t, i) == i >= 0 /\ i < t.m_count

\* The match test of the find loop at row i.  Reading m_items[i] for a row
\* outside the vector is undefined: oob is what that read yields.
row_matches(t, mode, i, oob) ==
    IF ~InRange(t, i) THEN oob
    ELSE \/ strstr_compare(mode, t.m_needle, Deref(t.m_store, t.m_items[i + 1]))
         \/ /\ t.m_has_columns
            /\ \E col \in 0..(max_columns - 1) :
                  strstr_compare(mode, t.m_needle, get_col_text(t.m_columns, t.m_store, i, col))

\* The while (true) loop of find: the row found, -1 when the loop ends without
\* a match, -2 when it never ends (i cannot come back to m_index).
RECURSIVE find_scan(_, _, _, _, _, _)
find_scan(t, mode, i, direction, fuel, oob) ==
    IF row_matches(t, mode, i, oob) THEN i
    ELSE LET j == advance_index(i, direction, t.m_count)
         IN IF j = t.m_index THEN -1
            ELSE IF fuel = 0 THEN -2
            ELSE find_scan(t, mode, j, direction, fuel - 1, oob)

Outcome(t, loop) == [t |-> t, loop |-> loop, hang |-> FALSE, clip |-> NullText]
Hang(t) == [t |-> t, loop |-> FALSE, hang |-> TRUE, clip |-> NullText]

\* After the switch: the one-shot flag, and result.loop().
input_done(t, set_input_clears_needle) ==
    Outcome(IF set_input_clears_needle /\ ~t.m_win_history
            THEN [t EXCEPT !.m_input_clears_needle = TRUE]
            ELSE t,
            TRUE)

navigated(t) == input_done(update_display(t), TRUE)

\* if (match): the selection moves to the row found, the top with it when
\* the row is out of view.
find_matched(t, found) ==
    [t EXCEPT !.m_index = found,
              !.m_top = IF found < t.m_top \/ found >= t.m_top + t.m_visible_rows
                        THEN Max(0, Min(found, t.m_count - t.m_visible_rows))
                        ELSE @,
              !.m_prev_displayed = -1]

\* What the find loop leaves: found is the row, -1 or -2.
find_found(t, found, need_display) ==
    IF found = -2 THEN Hang(t)
    ELSE input_done(IF found >= 0 THEN update_display(find_matched(t, found))
                    ELSE IF need_display THEN update_display(t)
                    ELSE t,
                    FALSE)

\* The find: label, reached with id findnext, findprev or findincr.
find(t, cfg, id, from_begin, need_display, oob) ==
    LET direction0 == IF id = "findprev" THEN -1 ELSE 1
        direction == IF t.m_reverse THEN 0 - direction0 ELSE direction0
        mode == IF cfg.ignore_case < 0 \/ cfg.ignore_case >= 3 THEN 0 ELSE cfg.ignore_case
        i0 == IF from_begin THEN (IF t.m_reverse THEN t.m_count - 1 ELSE 0) ELSE t.m_index
        i1 == IF id = "findnext" \/ id = "findprev"
              THEN advance_index(i0, direction, t.m_count)
              ELSE i0
    IN find_found(t, find_scan(t, mode, i1, direction, t.m_count, oob), need_display)

\* A prefix search that scans forward.
RECURSIVE prefix_scan_forward(_, _, _, _)
prefix_scan_forward(t, i, fuel, oob) ==
    LET j == IF i + 1 >= t.m_count THEN 0 ELSE i + 1
        cmp == str_compare(1, t.m_needle, Deref(t.m_store, t.m_items[j + 1]))
        match == IF InRange(t, j) THEN cmp = -1 \/ cmp = Len(t.m_needle) ELSE oob
    IN IF j = t.m_index THEN -1
       ELSE IF match THEN j
       ELSE IF fuel = 0 THEN -2
       ELSE prefix_scan_forward(t, j, fuel - 1, oob)

\* The backward prefix search of numeric mode: the row found, -1 or -2 as in
\* find_scan.
RECURSIVE prefix_scan(_, _, _, _)
prefix_scan(t, i, fuel, oob) ==
    LET j == IF i - 1 < 0 THEN t.m_count - 1 ELSE i - 1
        cmp == str_compare(1, t.m_needle, Deref(t.m_store, t.m_items[j + 1]))
        match == IF InRange(t, j) THEN cmp = -1 \/ cmp = Len(t.m_needle) ELSE oob
    IN IF j = t.m_index THEN -1
       ELSE IF match THEN j
       ELSE IF fuel = 0 THEN -2
       ELSE prefix_scan(t, j, fuel - 1, oob)

\* The history-number lookup: the first row whose number starts with the
\* digits of i, m_count when there is none.
RECURSIVE history_lookup(_, _, _)
history_lookup(t, needlestr, lookup) ==
    IF ~(lookup < t.m_count) THEN lookup
    ELSE IF strncmp_eq(needlestr, itoa(t.m_infos[lookup + 1].index + 1), Len(needlestr))
         THEN lookup
         ELSE history_lookup(t, needlestr, lookup + 1)

find_title(needle) == <<102, 105, 110, 100, 58, 32>> \o PadRight(needle, 10)
number_title(needle) ==
    <<101, 110, 116, 101, 114, 32, 104, 105, 115, 116, 111, 114, 121, 32,
      110, 117, 109, 98, 101, 114, 58, 32>> \o PadRight(needle, 6)

\* if (i >= 0 && i < m_count): the selection jumps to row i, the top is
\* centred on it when the row is out of view.
number_jump(t, i) ==
    IF i >= 0 /\ i < t.m_count
    THEN [t EXCEPT !.m_index = i,
                   !.m_top = IF i < t.m_top \/ i >= t.m_top + t.m_visible_rows
                             THEN Max(0, Min(i - CDiv(t.m_visible_rows, 2),
                                             t.m_count - t.m_visible_rows))
                             ELSE @,
                   !.m_prev_displayed = -1]
    ELSE t

\* The row of history number n: by the infos when there are any, else n - 1.
number_row(t, n) ==
    IF t.m_infos # <<>> THEN history_lookup(t, itoa(n), 0) ELSE n - 1

\* What the backward prefix search leaves: found is the row, -1 or -2.
prefix_found(t, found, refresh) ==
    IF found = -2 THEN Hang(t)
    ELSE input_done(IF found >= 0 THEN update_display(find_matched(t, found))
                    ELSE IF refresh THEN update_display(t)
                    ELSE t,
                    FALSE)

\* The update_needle: label, for backspace and for typed characters.
update_needle(t, cfg, refresh, from_begin, oob) ==
    IF ~t.m_win_history
    THEN find([t EXCEPT !.m_override_title =
                           IF Len(t.m_needle) > 0 THEN find_title(t.m_needle) ELSE <<>>],
              cfg, "findincr", from_begin, TRUE, oob)
    ELSE IF t.m_needle_is_number
    THEN input_done(
             IF Len(t.m_needle) > 0
             THEN update_display(number_jump(
                      [t EXCEPT !.m_override_title = number_title(t.m_needle)],
                      number_row(t, atoi(t.m_needle))))
             ELSE IF Len(t.m_override_title) > 0
             THEN update_display([t EXCEPT !.m_override_title = <<>>])
             ELSE IF refresh THEN update_display(t)
             ELSE t,
             FALSE)
    ELSE IF Len(t.m_needle) > 0
    THEN prefix_found(t, prefix_scan(t, t.m_index, t.m_count, oob), refresh)
    ELSE input_done(IF refresh THEN update_display(t) ELSE t, FALSE)

\* "Collect the input": one typed character c.
collect_input(t, c) ==
    LET fresh == IF t.m_input_clears_needle
                 THEN [expect(t, ~t.m_win_history, "on_input: !m_win_history")
                          EXCEPT !.m_needle = <<>>,
                                 !.m_needle_is_number = FALSE,
                                 !.m_input_clears_needle = FALSE]
                 ELSE t
    IN IF ~fresh.m_win_history
       THEN [t |-> [fresh EXCEPT !.m_override_title = <<>>, !.m_needle = Append(@, c)],
             refresh |-> fresh.m_has_override_title]
       ELSE IF c >= 48 /\ c <= 57
       THEN LET numeric == IF ~fresh.m_needle_is_number
                           THEN [fresh EXCEPT !.m_override_title = <<>>,
                                              !.m_needle = <<>>,
                                              !.m_needle_is_number = TRUE]
                           ELSE fresh
            IN [t |-> IF Len(numeric.m_needle) < 6
                      THEN [numeric EXCEPT !.m_needle = Append(@, c)]
                      ELSE numeric,
                refresh |-> ~fresh.m_needle_is_number /\ fresh.m_has_override_title]
       ELSE [t |-> [fresh EXCEPT !.m_override_title = <<>>,
                                 !.m_needle = <<c>>,
                                 !.m_needle_is_number = FALSE],
             refresh |-> fresh.m_has_override_title]

\* case bind_id_textlist_catchall, after the input is collected.
typed(got, cfg, oob) == update_needle(got.t, cfg, got.refresh, FALSE, oob)

\* on_input for the input bound to id (c is the character of a catchall
\* input): the object afterwards, whether result.loop() was called, and the
\* text given to the clipboard.  cfg is the host's settings; oob and garbage
\* are what a read outside m_items and outside m_entries yield.
on_input(t0, cfg, id, c, oob, garbage) ==
    LET t == expect(t0, t0.m_active, "on_input: m_active")
        y == t.m_index
        rows == Min(t.m_count, t.m_visible_rows)
    IN IF t.m_visible_rows <= 0 THEN Outcome(cancel(t, "cancel"), FALSE)
       ELSE CASE id = "up" ->
                   navigated([t EXCEPT !.m_index =
                       IF y - 1 < 0 THEN (IF cfg.wraparound THEN t.m_count - 1 ELSE 0)
                       ELSE y - 1])
              [] id = "down" ->
                   navigated([t EXCEPT !.m_index =
                       IF y + 1 >= t.m_count THEN (IF cfg.wraparound THEN 0 ELSE t.m_count - 1)
                       ELSE y + 1])
              [] id = "home" -> navigated([t EXCEPT !.m_index = 0])
              [] id = "end" -> navigated([t EXCEPT !.m_index = t.m_count - 1])
              [] id = "pgup" ->
                   IF y > 0
                   THEN navigated([t EXCEPT !.m_index =
                                      Max(0, IF y = t.m_top THEN y - rows ELSE t.m_top)])
                   ELSE input_done(t, TRUE)
              [] id = "pgdn" ->
                   IF y < t.m_count - 1
                   THEN LET bottom_y == t.m_top + rows - 1
                            new_y == Min(t.m_count - 1, IF y = bottom_y THEN y + rows ELSE bottom_y)
                        IN navigated(IF new_y > t.m_count - 1
                                     THEN [set_top(t, Max(0, t.m_count - t.m_visible_rows))
                                              EXCEPT !.m_index = t.m_count - 1]
                                     ELSE [t EXCEPT !.m_index = new_y])
                   ELSE input_done(t, TRUE)
              [] id = "findnext" \/ id = "findprev" ->
                   IF t.m_win_history THEN input_done(t, FALSE)
                   ELSE find(t, cfg, id, FALSE, FALSE, oob)
              [] id = "copy" ->
                   [input_done(t, FALSE) EXCEPT
                       !.clip = IF InRange(t, y) THEN CStr(t.m_entries[y + 1]) ELSE garbage]
              [] id = "escape" -> Outcome(cancel(t, "cancel"), FALSE)
              [] id = "enter" -> Outcome(cancel(t, "use"), FALSE)
              [] id = "insert" -> Outcome(cancel(t, "select"), FALSE)
              [] id = "backspace" ->
                   IF Len(t.m_needle) = 0 THEN input_done(t, FALSE)
                   ELSE update_needle([t EXCEPT !.m_needle =
                                          SubSeq(@, 1, rl_find_prev_mbchar(@))],
                                      cfg, TRUE, ~t.m_win_history, oob)
              [] id = "catchall" -> typed(collect_input(t, c), cfg, oob)

\* ------------------------------------------------------------ the inputs
\* The texts callers pass: ap, b, a^A (a control character), Ab.
EntryText(i) ==
    LET base == << <<97, 112>>, <<98>>, <<97, 1>>, <<65, 98>> >>
    IN base[((i - 1) % 4) + 1]

\* The column tail of an encoded entry: two fields, none, one field.
EntryTail(i) ==
    LET base == << <<99, 9, 100, 100>>, <<>>, <<97>> >>
    IN base[((i - 1) % 3) + 1]

\* match NUL display NUL tail NUL
EncodedEntry(i) == <<109, 0>> \o EntryText(i) \o <<0>> \o EntryTail(i) \o <<0>>

Entries(n, has_columns) ==
    [i \in 1..n |-> IF has_columns THEN EncodedEntry(i) ELSE EntryText(i)]

\* History numbers 2, 11, 1, 12, ... (entry_info::index is the number - 1):
\* numbers with no row of number 1, with 11 before 1, and with both.
InfoIndex(i) ==
    LET base == <<1, 10, 0, 11>>
    IN base[((i - 1) % 4) + 1] + 100 * ((i - 1) \div 4)

Infos(n) == [i \in 1..n |-> [index |-> InfoIndex(i), marked |-> (i % 2 = 0)]]

\* Terminal sizes <<columns, rows>>: too narrow, too low, 1 visible row,
\* 2 visible rows, and more rows than the 10 or 20 the list asks for.
ScreenSizes == {<<20, 14>>, <<40, 9>>, <<40, 10>>, <<40, 12>>, <<80, 60>>}

\* The characters typed: A (in rows ap, a^A and Ab when case is ignored, in
\* a^A and Ab when it is not), and 1.
Keys == {65, 49}

InputIds == {"up", "down", "pgup", "pgdn", "home", "end", "findnext", "findprev",
             "copy", "backspace", "escape", "enter", "insert", "catchall"}

\* The host's settings: _rl_menu_complete_wraparound and g_ignore_case.
Cfgs == {[wraparound |-> TRUE, ignore_case |-> 1], [wraparound |-> FALSE, ignore_case |-> 0]}

Args(fn, title, entries, count, index, reverse, history_mode, infos, has_columns) ==
    [fn |-> fn, title |-> title, entries |-> entries, count |-> count, index |-> index,
     reverse |-> reverse, history_mode |-> history_mode, infos |-> infos,
     has_columns |-> has_columns]

NoArgs == Args("none", <<>>, NullEntries, 0, 0, FALSE, 0, <<>>, FALSE)

\* activate_text_list(title, entries, count, current, has_columns): the
\* entries of Entries with every current up to count, a null entries array,
\* and the entries ap and "" (an empty text).
TextListArgs ==
    {a \in {Args("activate_text_list", IF n <= 1 THEN <<>> ELSE <<84>>, Entries(n, hc), n,
                     current, FALSE, 0, <<>>, hc) :
               n \in 0..MaxCount, current \in -1..MaxCount, hc \in BOOLEAN} :
        a.index <= a.count}
    \cup {Args("activate_text_list", <<>>, NullEntries, 1, 0, FALSE, 0, <<>>, FALSE)}
    \cup {Args("activate_text_list", <<>>, << <<97, 112>>, <<>> >>, 2, 0, FALSE, 0, <<>>, FALSE)}

\* activate_directories_text_list(dirs, count)
DirectoriesArgs ==
    {Args("activate_directories_text_list", <<68, 105, 114, 101, 99, 116, 111, 114, 105, 101, 115>>,
          Entries(n, FALSE), n, n - 1, TRUE, 0, <<>>, FALSE) : n \in 0..MaxCount}

\* activate_history_text_list(history, count, current, infos, history_mode),
\* called as its assertions require: 0 <= current < count.
HistoryArgs ==
    {a \in {Args("activate_history_text_list", <<72, 105, 115, 116, 111, 114, 121>>,
                Entries(n, FALSE), n, current, TRUE, mode, infos, FALSE) :
               n \in 1..MaxCount, current \in 0..(MaxCount - 1), mode \in {0, 1, 2},
               infos \in {<<>>} \cup {Infos(m) : m \in 1..MaxCount}} :
        /\ a.index < a.count
        /\ a.infos = <<>> \/ Len(a.infos) = a.count
        /\ a.history_mode = 0 => a.infos = <<>>
        /\ a.history_mode = 1 => a.infos # <<>>}

\* ------------------------------------------------------ the state machine
VARIABLES
    tl,          \* the textlist_impl object
    s_textlist,  \* the shared instance pointer is set
    cfg,         \* the host's settings
    pc,          \* idle, dispatch (inside m_dispatcher.dispatch), leaving
                 \* (dispatch has returned), returned, hung
    ev,          \* the operation or event handled last (ghost)
    args,        \* the arguments of the wrapper call just made (ghost)
    macrodef,    \* RL_STATE_MACRODEF was set when it was made (ghost)
    ret,         \* what the wrapper returned (ghost)
    cursor,      \* show_cursor and lock_cursor calls of the activation (ghost)
    clipboard    \* the text the last step gave os::set_clipboard_text (ghost)

vars == <<tl, s_textlist, cfg, pc, ev, args, macrodef, ret, cursor, clipboard>>

NoRet == [m_result |-> "none", m_index |-> -1, m_text |-> <<>>]

Init ==
    /\ tl = textlist_init
    /\ s_textlist = FALSE
    /\ cfg \in Cfgs
    /\ pc = "idle"
    /\ ev = "init"
    /\ args = NoArgs
    /\ macrodef = FALSE
    /\ ret = NoRet
    /\ cursor = <<>>
    /\ clipboard = NullText

\* The frame ghost holds what the handler about to run draws, and the rows
\* the screen shows when it starts.
Entering(t) == [t EXCEPT !.frame = [NoFrame EXCEPT !.screen = t.frame.screen]]

BeginLine ==
    /\ pc = "idle"
    /\ ~s_textlist
    /\ \E size \in ScreenSizes : tl' = on_begin_line(Entering(tl), size[1], size[2])
    /\ s_textlist' = TRUE
    /\ ev' = "on_begin_line"
    /\ UNCHANGED <<cfg, pc, args, macrodef, ret, cursor, clipboard>>

EndLine ==
    /\ pc = "idle"
    /\ s_textlist
    /\ tl' = on_end_line(Entering(tl))
    /\ s_textlist' = FALSE
    /\ ev' = "on_end_line"
    /\ UNCHANGED <<cfg, pc, args, macrodef, ret, cursor, clipboard>>

\* A resize while no popup is open.
ResizeIdle ==
    /\ pc = "idle"
    /\ s_textlist
    /\ \E size \in ScreenSizes : tl' = on_terminal_resize(Entering(tl), size[1], size[2])
    /\ ev' = "on_terminal_resize"
    /\ UNCHANGED <<s_textlist, cfg, pc, args, macrodef, ret, cursor, clipboard>>

\* activate has run as far as res says: into the dispatcher, or back to the
\* caller.
Activated(res) ==
    /\ tl' = res.t
    /\ ret' = IF res.entered THEN NoRet ELSE res.ret
    /\ pc' = IF res.entered THEN "dispatch" ELSE "returned"
    /\ cursor' = IF res.entered THEN <<"hide", "lock">> ELSE <<>>

\* A wrapper that calls activate without looking at s_textlist.
Call_unguarded(a, recording) ==
    /\ pc = "idle"
    /\ args' = a
    /\ macrodef' = recording
    /\ ev' = "activate"
    /\ clipboard' = NullText
    /\ Activated(activate(Entering(tl), a, recording))
    /\ UNCHANGED <<s_textlist, cfg>>

\* A wrapper called with arguments a: error when no instance is registered,
\* else activate up to the dispatcher.
Call(a, recording) ==
    /\ pc = "idle"
    /\ args' = a
    /\ macrodef' = recording
    /\ ev' = "activate"
    /\ clipboard' = NullText
    /\ IF ~s_textlist
       THEN /\ tl' = tl
            /\ ret' = popup_results_of("error")
            /\ pc' = "returned"
            /\ cursor' = <<>>
       ELSE Activated(activate(Entering(tl), a, recording))
    /\ UNCHANGED <<s_textlist, cfg>>

ActivateTextList == \E a \in TextListArgs, recording \in BOOLEAN : Call(a, recording)

ActivateDirectories == \E a \in DirectoriesArgs, recording \in BOOLEAN : Call(a, recording)

ActivateHistory == \E a \in HistoryArgs, recording \in BOOLEAN : Call(a, recording)

\* on_input has returned o: the dispatcher goes on when it called
\* result.loop(), and never comes back from a handler that does not end.
Delivered(o) ==
    /\ Len(o.t.m_needle) <= MaxNeedle
    /\ tl' = o.t
    /\ pc' = IF o.hang THEN "hung" ELSE IF o.loop THEN "dispatch" ELSE "leaving"
    /\ clipboard' = o.clip

\* The dispatcher delivers one bound input to on_input.
Input ==
    /\ pc = "dispatch"
    /\ \E id \in InputIds :
       \E c \in IF id = "catchall" THEN Keys ELSE {0} :
       \E oob \in IF InRange(tl, tl.m_index) THEN {FALSE} ELSE BOOLEAN :
       \E garbage \in IF InRange(tl, tl.m_index) \/ id # "copy" THEN {<<>>} ELSE {<<>>, <<63>>} :
          /\ Delivered(on_input(Entering(tl), cfg, id, c, oob, garbage))
          /\ ev' = id
    /\ args' = NoArgs
    /\ macrodef' = FALSE
    /\ UNCHANGED <<s_textlist, cfg, ret, cursor>>

\* The dispatcher reads a terminal resize: the modules are told, and the
\* dispatch loop ends.
DispatchResize ==
    /\ pc = "dispatch"
    /\ \E size \in ScreenSizes : tl' = on_terminal_resize(Entering(tl), size[1], size[2])
    /\ pc' = "leaving"
    /\ ev' = "on_terminal_resize"
    /\ args' = NoArgs
    /\ macrodef' = FALSE
    /\ clipboard' = NullText
    /\ UNCHANGED <<s_textlist, cfg, ret, cursor>>

\* The dispatch loop is left unexpectedly.
DispatchAbort ==
    /\ pc = "dispatch"
    /\ tl' = Entering(tl)
    /\ pc' = "leaving"
    /\ ev' = "abort"
    /\ args' = NoArgs
    /\ macrodef' = FALSE
    /\ clipboard' = NullText
    /\ UNCHANGED <<s_textlist, cfg, ret, cursor>>

Returned(res) ==
    /\ tl' = res.t
    /\ ret' = res.ret

\* The rest of activate, after dispatch.
ActivateReturn ==
    /\ pc = "leaving"
    /\ Returned(activate_leave(Entering(tl)))
    /\ cursor' = cursor \o <<"unlock", "show">>
    /\ pc' = "returned"
    /\ clipboard' = NullText
    /\ UNCHANGED <<s_textlist, cfg, ev, args, macrodef>>

\* The caller takes the result; the ghosts of the call are dropped.
TakeResult ==
    /\ pc = "returned"
    /\ pc' = "idle"
    /\ ev' = "idle"
    /\ tl' = [tl EXCEPT !.frame = NoFrame, !.assert_failed = {}]
    /\ args' = NoArgs
    /\ macrodef' = FALSE
    /\ ret' = NoRet
    /\ cursor' = <<>>
    /\ clipboard' = NullText
    /\ UNCHANGED <<s_textlist, cfg>>

Next ==
    \/ BeginLine
    \/ EndLine
    \/ ResizeIdle
    \/ ActivateTextList
    \/ ActivateDirectories
    \/ ActivateHistory
    \/ Input
    \/ DispatchResize
    \/ DispatchAbort
    \/ ActivateReturn
    \/ TakeResult

Spec == Init /\ [][Next]_vars

\* ------------------------------------------------ a re-entrant activation
\* A wrapper is called while the popup is open (s_textlist is set then, so
\* the wrapper goes on to activate).  activate runs up to its own call of
\* the dispatcher or to its error return; what follows a re-entrant call is
\* not modelled (pc = "reentered" has no successor).
ReenterArgs == {a \in TextListArgs : a.count <= 1 /\ a.index = 0 /\ ~a.has_columns}

Reentered(res) ==
    /\ tl' = res.t
    /\ ret' = IF res.entered THEN NoRet ELSE res.ret
    /\ cursor' = IF res.entered THEN cursor \o <<"hide", "lock">> ELSE cursor

Reenter ==
    /\ pc = "dispatch"
    /\ s_textlist
    /\ \E a \in ReenterArgs :
          /\ Reentered(activate(Entering(tl), a, FALSE))
          /\ args' = a
    /\ pc' = "reentered"
    /\ ev' = "reenter"
    /\ macrodef' = FALSE
    /\ clipboard' = NullText
    /\ UNCHANGED <<s_textlist, cfg>>

ReentrantNext == Next \/ Reenter

ReentrantSpec == Init /\ [][ReentrantNext]_vars

\* -------------------------------------------------------------- properties
\* The assertions on top in set_top and in update_top.
TopAsserts ==
    {"set_top: top >= 0", "set_top: top <= max",
     "update_top: m_top >= 0", "update_top: m_top <= max"}

\* The inputs that end an activation, and the result kind of each.
ClosingIds == {"escape", "enter", "insert"}

ClosingKind(id) ==
    CASE id = "escape" -> "cancel"
      [] id = "enter" -> "use"
      [] id = "insert" -> "select"
      [] OTHER -> "none"

\* The data members of the object (the ghosts left out).
Members == DOMAIN textlist_init \ {"assert_failed", "frame"}

\* A wrapper call made with s_textlist set meets a failing precondition of
\* activate: t is the object before the call.
PreconditionFails(t, a, recording) ==
    \/ a.entries = NullEntries
    \/ a.count <= 0
    \/ recording
    \/ CDiv(t.m_screen_rows, 2) - 4 <= 0
    \/ t.m_screen_cols <= 20

\* This step is a wrapper call that returns without entering the popup.
FailedCall == pc = "idle" /\ ev' = "activate" /\ pc' = "returned"

\* This step is the return of activate after the dispatcher.
ReturnStep == pc = "leaving" /\ pc' = "returned"

\* C1: while a popup with count > 0 is open, whatever initial index the
\* caller gave and whatever inputs were handled, 0 <= index < count.
C1_IndexInRange ==
    (pc = "dispatch" /\ tl.m_count > 0) => (0 <= tl.m_index /\ tl.m_index < tl.m_count)

\* C1: an open popup whose selected index is count.
C1_IndexIsCount == pc = "dispatch" /\ tl.m_count > 0 /\ tl.m_index = tl.m_count

\* C2: while a popup is open, 0 <= top <= max(0, count - visible_rows), and
\* no assertion on top in set_top or update_top has failed.
C2_TopInRange ==
    pc = "dispatch" =>
        /\ 0 <= tl.m_top
        /\ tl.m_top <= Max(0, tl.m_count - tl.m_visible_rows)
        /\ tl.assert_failed \cap TopAsserts = {}

\* C2: an open popup after an assertion on top has failed.
C2_TopAssertFailed == pc = "dispatch" /\ tl.assert_failed \cap TopAsserts # {}

\* C3: an input that changes the selected index draws a frame, and after it
\* top <= index < top + visible_rows.
C3_SelectionInView ==
    [][(pc = "dispatch" /\ ev' \in InputIds /\ tl'.m_index # tl.m_index) =>
          /\ tl'.frame.kind = "list"
          /\ tl'.m_top <= tl'.m_index
          /\ tl'.m_index < tl'.m_top + tl'.m_visible_rows]_vars

\* C3: a page down has moved the selection and scrolled the list: the
\* selected row is the last row in view.
C3_PagedDown ==
    /\ pc = "dispatch" /\ ev = "pgdn" /\ tl.frame.kind = "list"
    /\ tl.m_top > 0
    /\ tl.m_index = tl.m_top + tl.m_visible_rows - 1

\* C4: escape, enter and insert close the popup (not active, the dispatcher
\* is not asked to go on) with kinds cancel, use and select, which activate
\* then returns; every other input leaves the popup active and dispatching.
C4_TerminalActions ==
    [][/\ (pc = "dispatch" /\ ev' \in ClosingIds) =>
            /\ ~tl'.m_active
            /\ pc' = "leaving"
            /\ tl'.m_results.m_result = ClosingKind(ev')
       /\ (pc = "dispatch" /\ ev' \in InputIds \ ClosingIds) =>
            /\ tl'.m_active
            /\ pc' # "leaving"
       /\ (ReturnStep /\ ev \in ClosingIds) => ret'.m_result = ClosingKind(ev)]_vars

\* C4: activate has returned select after the insert input.
C4_SelectReturned == pc = "returned" /\ ev = "insert" /\ ret.m_result = "select"

\* C5: when activate returns use or select, the returned index is the row
\* selected when the accept input was handled, 0 <= index < count, and the
\* returned text is the caller's entries[index].
C5_AcceptedRow ==
    [][(ReturnStep /\ ret'.m_result \in {"use", "select"}) =>
          /\ ret'.m_index = tl.m_index
          /\ 0 <= ret'.m_index
          /\ ret'.m_index < tl.m_count
          /\ ret'.m_text = CStr(tl.m_entries[ret'.m_index + 1])]_vars

\* C5: activate has returned use with no row.
C5_UseWithoutRow ==
    pc = "returned" /\ ev = "enter" /\ ret.m_result = "use" /\ ret.m_index = -1

\* C6: a resize while the popup is open cancels it at once (not active,
\* result cancel, the layout not recomputed), the dispatcher delivers nothing
\* more, activate returns cancel, and the assertions that the popup is active
\* in on_input and in cancel never fail.
C6_ResizeCancels ==
    [][/\ (pc = "dispatch" /\ ev' = "on_terminal_resize") =>
            /\ ~tl'.m_active
            /\ tl'.m_results = popup_results_of("cancel")
            /\ tl'.m_visible_rows = tl.m_visible_rows
            /\ pc' = "leaving"
       /\ (ReturnStep /\ ev = "on_terminal_resize") => ret' = popup_results_of("cancel")
       /\ tl'.assert_failed \cap {"on_input: m_active", "cancel: m_active"} = {}]_vars

\* C6: activate has returned cancel after a resize.
C6_ResizeReturned ==
    pc = "returned" /\ ev = "on_terminal_resize" /\ ret.m_result = "cancel"

\* C7: a call with null entries, count <= 0, a macro being recorded,
\* screen_rows / 2 - 4 <= 0 or screen_cols <= 20 returns error at once: the
\* cursor is not touched, no frame is drawn, the dispatcher is not entered.
C7_PreconditionError ==
    [][(pc = "idle" /\ s_textlist /\ ev' = "activate"
        /\ PreconditionFails(tl, args', macrodef')) =>
          /\ ret'.m_result = "error"
          /\ pc' = "returned"
          /\ cursor' = <<>>
          /\ tl'.frame = NoFrame
          /\ ~tl'.m_active]_vars

\* C7: a call with entries, outside a macro, has returned error for lack of
\* room.
C7_NoRoomError ==
    /\ pc = "returned" /\ ev = "activate" /\ s_textlist
    /\ args.entries # NullEntries /\ args.count > 0 /\ ~macrodef
    /\ ret.m_result = "error"

\* C8 (as stated): a call that fails a precondition leaves every data member
\* as it was.
C8_NoMutation ==
    [][(FailedCall /\ s_textlist) => \A f \in Members : tl'[f] = tl[f]]_vars

\* C8 (amended): a call that fails a precondition leaves every data member
\* as it was, except visible_rows, which it leaves <= 0, and the reverse
\* flag, which it may clear.
C8_NoMutationButLayout ==
    [][(FailedCall /\ s_textlist) =>
          /\ \A f \in Members \ {"m_visible_rows", "m_reverse"} : tl'[f] = tl[f]
          /\ tl'.m_visible_rows <= 0
          /\ tl'.m_reverse => tl.m_reverse]_vars

\* C8: a call made while a macro is recorded, on a terminal with room, has
\* returned error.
C8_FailedWithRoom ==
    /\ pc = "returned" /\ ev = "activate" /\ s_textlist /\ macrodef
    /\ ret.m_result = "error"
    /\ CDiv(tl.m_screen_rows, 2) - 4 > 0 /\ tl.m_screen_cols > 20

\* C9: error is returned only by a call that failed a precondition (or found
\* no instance), before any frame; an activation that entered the dispatcher
\* returns cancel, use or select, and cancel when the dispatcher was left
\* with no terminal action handled.
C9_ErrorOnlyBeforeOpen ==
    [][/\ (pc # "returned" /\ pc' = "returned" /\ ret'.m_result = "error") =>
            /\ FailedCall
            /\ ~s_textlist \/ PreconditionFails(tl, args', macrodef')
            /\ tl'.frame = NoFrame
       /\ ReturnStep => ret'.m_result \in {"cancel", "use", "select"}
       /\ (ReturnStep /\ ev = "abort") => ret' = popup_results_of("cancel")]_vars

\* C9: activate has returned cancel after the dispatcher was left with no
\* terminal action.
C9_AbortReturned == pc = "returned" /\ ev = "abort" /\ ret.m_result = "cancel"

\* The members the arguments seed and the events change.
PerActivation ==
    {"m_entries", "m_infos", "m_count", "m_reverse", "m_history_mode", "m_win_history",
     "m_has_columns", "m_default_title", "m_index", "m_top", "m_prev_displayed",
     "m_needle", "m_needle_is_number", "m_input_clears_needle", "m_override_title",
     "m_has_override_title", "m_longest"}

\* C10: after activate returns, every member seeded from the arguments or
\* changed by events is at its initial value, there are no items and no
\* column rows, and the store holds no page.
C10_AllCleared ==
    pc = "returned" =>
        /\ \A f \in PerActivation : tl[f] = textlist_init[f]
        /\ tl.m_items = <<>>
        /\ tl.m_columns.m_rows = <<>>
        /\ tl.m_store.m_page = <<>>

\* C10: activate has returned and the reverse flag is set.
C10_ReverseLeft == pc = "returned" /\ tl.m_reverse

\* C11: the not-active assertion of activate holds on every call, a call
\* made while a popup is open leaves every data member of the open popup as
\* it was, and on_begin_line runs only when no instance is registered.
C11_SingleActivation ==
    [][/\ "activate: !m_active" \notin tl'.assert_failed
       /\ (pc = "dispatch" /\ pc' = "reentered") => \A f \in Members : tl'[f] = tl[f]
       /\ (ev' = "on_begin_line" /\ s_textlist' # s_textlist) => ~s_textlist]_vars

\* C11: a call made while a popup was open has returned error, and the open
\* popup is left active with no entries.
C11_OpenPopupWiped ==
    /\ pc = "reentered" /\ ret.m_result = "error"
    /\ tl.m_active /\ tl.m_count = 0 /\ tl.m_entries = NullEntries

\* C12: up at index 0 gives count - 1 with wraparound and 0 without, down at
\* index count - 1 gives 0 with wraparound and count - 1 without, and at
\* every other position up and down change the index by -1 and +1.
C12_UpDown ==
    [][/\ (pc = "dispatch" /\ ev' = "up") =>
            tl'.m_index = IF tl.m_index = 0
                          THEN (IF cfg.wraparound THEN tl.m_count - 1 ELSE 0)
                          ELSE tl.m_index - 1
       /\ (pc = "dispatch" /\ ev' = "down") =>
            tl'.m_index = IF tl.m_index = tl.m_count - 1
                          THEN (IF cfg.wraparound THEN 0 ELSE tl.m_count - 1)
                          ELSE tl.m_index + 1]_vars

\* C13: with rows = min(count, visible_rows), page down at index < count - 1
\* selects the last row of the page, min(count - 1, top + rows - 1), or, from
\* that row, min(count - 1, index + rows); afterwards top is the smallest
\* value that shows the selection and index <= count - 1.  Page down at
\* index = count - 1 changes neither index nor top.
C13_PageDown ==
    [][(pc = "dispatch" /\ ev' = "pgdn") =>
          LET rows == Min(tl.m_count, tl.m_visible_rows)
              last == Min(tl.m_count - 1, tl.m_top + rows - 1)
          IN /\ tl.m_index < tl.m_count - 1 =>
                  /\ tl'.m_index = IF tl.m_index # last THEN last
                                   ELSE Min(tl.m_count - 1, tl.m_index + rows)
                  /\ tl'.m_top = Max(0, tl'.m_index - tl.m_visible_rows + 1)
                  /\ tl'.m_index <= tl.m_count - 1
             /\ tl.m_index = tl.m_count - 1 =>
                  /\ tl'.m_index = tl.m_index
                  /\ tl'.m_top = tl.m_top]_vars

\* C14: with rows = min(count, visible_rows), page up at index > 0 selects
\* top, or, from top, max(0, index - rows); afterwards top is the selected
\* row.  Page up at index 0 changes neither index nor top.
C14_PageUp ==
    [][(pc = "dispatch" /\ ev' = "pgup") =>
          LET rows == Min(tl.m_count, tl.m_visible_rows)
          IN /\ tl.m_index > 0 =>
                  /\ tl'.m_index = IF tl.m_index # tl.m_top THEN tl.m_top
                                   ELSE Max(0, tl.m_index - rows)
                  /\ tl'.m_top = tl'.m_index
             /\ tl.m_index = 0 =>
                  /\ tl'.m_index = tl.m_index
                  /\ tl'.m_top = tl.m_top]_vars

\* C14: a page up has drawn a frame and the selected row is the first row in
\* view, below row 0.
C14_PagedUp ==
    /\ pc = "dispatch" /\ ev = "pgup" /\ tl.frame.kind = "list"
    /\ tl.m_top > 0
    /\ tl.m_index = tl.m_top

\* The needle is a substring of the text, characters compared as the
\* host's case setting says.
Contains(mode, needle, text) ==
    \E k \in 0..(Len(text) - Len(needle)) :
       \A j \in 1..Len(needle) : FoldChar(mode, needle[j]) = FoldChar(mode, text[k + j])

\* The host's case setting as the search uses it.
CaseMode == IF cfg.ignore_case < 0 \/ cfg.ignore_case >= 3 THEN 0 ELSE cfg.ignore_case

\* The primary text of row i of the open popup, and its column texts.
PrimaryText(t, i) == Deref(t.m_store, t.m_items[i + 1])

ColumnTexts(t, i) ==
    IF t.m_has_columns
    THEN {get_col_text(t.m_columns, t.m_store, i, col) : col \in 0..(max_columns - 1)}
             \ {NullText}
    ELSE {}

\* Row i contains the needle, in its primary text or in a column text.
RowContains(t, needle, i) ==
    \E text \in {PrimaryText(t, i)} \cup ColumnTexts(t, i) : Contains(CaseMode, needle, text)

\* The k-th row after the selected one, in the direction dir, circularly.
ScanRow(t, dir, k) == (t.m_index + dir * k) % t.m_count

\* The direction of a search: forward for find next, backward for find
\* previous, and the other way round in a reversed list.
ScanDir(t, id) ==
    (IF id = "findprev" THEN -1 ELSE 1) * (IF t.m_reverse THEN -1 ELSE 1)

\* The least element of a non-empty set of numbers.
Least(S) == CHOOSE k \in S : \A h \in S : k <= h

\* C15: in free-text mode, find next and find previous select the first row
\* after the selected one, in scan order and circularly, that contains the
\* needle in its primary text or in a column text.
C15_FindNext ==
    [][(pc = "dispatch" /\ ev' \in {"findnext", "findprev"} /\ ~tl.m_win_history) =>
          LET hits == {k \in 1..(tl.m_count - 1) :
                          RowContains(tl, tl.m_needle, ScanRow(tl, ScanDir(tl, ev'), k))}
          IN hits # {} => tl'.m_index = ScanRow(tl, ScanDir(tl, ev'), Least(hits))]_vars

\* C16: in free-text mode a typed character is appended to the needle (to
\* the empty needle when the one-shot flag asks for a fresh one), and the
\* selection moves to the first row containing the new needle, scanning
\* circularly from the selected row itself in the list's direction; every
\* row is tested, and the selection stays while its row still matches.
C16_TypedSearch ==
    [][(pc = "dispatch" /\ ev' = "catchall" /\ ~tl.m_win_history) =>
          LET hits == {k \in 0..(tl.m_count - 1) :
                          RowContains(tl, tl'.m_needle, ScanRow(tl, ScanDir(tl, ev'), k))}
          IN /\ \E c \in Keys :
                   tl'.m_needle =
                       Append(IF tl.m_input_clears_needle THEN <<>> ELSE tl.m_needle, c)
             /\ hits # {} => tl'.m_index = ScanRow(tl, ScanDir(tl, ev'), Least(hits))]_vars

\* The row reached after k steps from the start of the list in the
\* direction dir: row k forward, row count - 1 - k backward.
FromStart(t, dir, k) == IF dir > 0 THEN k ELSE t.m_count - 1 - k

\* C17: in free-text mode, backspace on a non-empty needle removes its last
\* character and searches again from the start of the list (from the last
\* row in a reversed list): if a row contains the shortened needle, the
\* first such row counted from that start is selected.
C17_BackspaceSearch ==
    [][(pc = "dispatch" /\ ev' = "backspace" /\ ~tl.m_win_history /\ tl.m_needle # <<>>) =>
          LET hits == {k \in 0..(tl.m_count - 1) :
                          RowContains(tl, tl'.m_needle, FromStart(tl, ScanDir(tl, ev'), k))}
          IN /\ tl'.m_needle = SubSeq(tl.m_needle, 1, Len(tl.m_needle) - 1)
             /\ hits # {} => tl'.m_index = FromStart(tl, ScanDir(tl, ev'), Least(hits))]_vars

\* C17: after a backspace in free-text mode the selected row does not
\* contain the needle although another row does.
C17_MatchNotSelected ==
    /\ pc = "dispatch" /\ ev = "backspace" /\ ~tl.m_win_history
    /\ tl.m_needle # <<>>
    /\ InRange(tl, tl.m_index)
    /\ ~RowContains(tl, tl.m_needle, tl.m_index)
    /\ \E i \in 0..(tl.m_count - 1) : RowContains(tl, tl.m_needle, i)

\* The free-text searches: find next, find previous, and the incremental
\* search after a typed character or after a backspace on a non-empty needle.
SearchStep ==
    /\ pc = "dispatch" /\ ~tl.m_win_history
    /\ ev' \in {"findnext", "findprev", "catchall", "backspace"}
    /\ ev' = "backspace" => tl.m_needle # <<>>

\* C18: a free-text search whose needle no row of the list contains leaves
\* index and top unchanged, keeps the activation open and reports no error.
C18_NoMatch ==
    [][(SearchStep /\ \A i \in 0..(tl.m_count - 1) : ~RowContains(tl, tl'.m_needle, i)) =>
          /\ tl'.m_index = tl.m_index
          /\ tl'.m_top = tl.m_top
          /\ tl'.m_active /\ pc' = "dispatch" /\ ret' = NoRet]_vars

\* C18: a search has just run, no row contains its needle, and the popup
\* is still open on the same list.
C18_SearchedInVain ==
    /\ pc = "dispatch" /\ ~tl.m_win_history /\ tl.m_active
    /\ ev \in {"findnext", "findprev", "catchall", "backspace"}
    /\ tl.m_needle # <<>> /\ InRange(tl, tl.m_index)
    /\ \A i \in 0..(tl.m_count - 1) : ~RowContains(tl, tl.m_needle, i)

\* The history sequence number of row i (0-based): its info index + 1.
SequenceNumber(t, i) == t.m_infos[i + 1].index + 1

\* The rows whose history sequence number is n.
Numbered(t, n) == {i \in 0..(t.m_count - 1) : SequenceNumber(t, i) = n}

\* A digit is typed in windowed-history mode with per-row metadata.
DigitStep ==
    /\ pc = "dispatch" /\ ev' = "catchall"
    /\ tl.m_win_history /\ tl.m_infos # <<>>
    /\ tl'.m_needle_is_number /\ tl'.m_needle # <<>>

\* C19: in windowed-history mode with per-row metadata, once the digits
\* typed so far form the number N, the selected row is a row whose history
\* sequence number equals N when there is one, and the index is unchanged
\* when no row has sequence number N.
C19_NumericJump ==
    [][DigitStep =>
          LET rows == Numbered(tl, atoi(tl'.m_needle))
          IN IF rows # {} THEN tl'.m_index \in rows
                          ELSE tl'.m_index = tl.m_index]_vars

\* C19: digits have been typed and the selected row carries a number that
\* is not the number typed.
C19_PrefixSelected ==
    /\ pc = "dispatch" /\ ev = "catchall"
    /\ tl.m_win_history /\ tl.m_infos # <<>>
    /\ tl.m_needle_is_number /\ tl.m_needle = <<49>>
    /\ SequenceNumber(tl, tl.m_index) = 11

\* C20: copy gives the clipboard the raw entry of the selected row, as the
\* caller passed it, and changes nothing else: index, top, needle, the
\* numeric flag and the one-shot flag keep their values and the popup
\* stays open.
C20_Copy ==
    [][(pc = "dispatch" /\ ev' = "copy") =>
          /\ InRange(tl, tl.m_index)
          /\ clipboard' = CStr(tl.m_entries[tl.m_index + 1])
          /\ tl'.m_index = tl.m_index
          /\ tl'.m_top = tl.m_top
          /\ tl'.m_needle = tl.m_needle
          /\ tl'.m_needle_is_number = tl.m_needle_is_number
          /\ tl'.m_input_clears_needle = tl.m_input_clears_needle
          /\ tl'.m_active /\ pc' = "dispatch" /\ ret' = NoRet]_vars

\* C20: the row a^A has been copied: the clipboard holds its control
\* character, not the two characters displayed for it.
C20_RawCopied ==
    /\ pc = "dispatch" /\ ev = "copy" /\ tl.m_active
    /\ InRange(tl, tl.m_index)
    /\ clipboard = <<97, 1>>
    /\ clipboard = CStr(tl.m_entries[tl.m_index + 1])

\* ------------------------------------------------ the item store on its own
\* The store driven directly: m_items keeps the handles add returned, in
\* order, and args.entries the strings that were passed to it.
MaxAdds == 3

\* A string of n characters.
Blob(n) == [i \in 1..n |-> 97]

\* The strings added: empty, one character, one that fills half of a page's
\* room with its terminator, one that fills it exactly, and one that is one
\* byte longer than a page's room.
StoreItems ==
    {<<>>, <<97>>,
     Blob((pagesize - page_data_offset) \div 2 - 1),
     Blob(pagesize - page_data_offset - 1),
     Blob(pagesize - page_data_offset)}

StoreInit ==
    /\ tl = textlist_init
    /\ s_textlist = FALSE
    /\ cfg \in Cfgs
    /\ pc = "store"
    /\ ev = "init"
    /\ args = [NoArgs EXCEPT !.entries = <<>>]
    /\ macrodef = FALSE
    /\ ret = NoRet
    /\ cursor = <<>>
    /\ clipboard = NullText

\* m_items.push_back(m_store.add(item)).  Nothing is modelled after a write
\* past the end of the page.
StoreAdded(added, item) ==
    /\ tl' = [tl EXCEPT !.m_store = added.store, !.m_items = Append(@, added.ptr)]
    /\ args' = [args EXCEPT !.entries = Append(@, item)]

StoreAdd ==
    /\ pc = "store"
    /\ Len(tl.m_items) < MaxAdds
    /\ tl.m_store.m_front <= tl.m_store.m_back
    /\ \E item \in StoreItems : StoreAdded(item_store_add(tl.m_store, item), item)
    /\ ev' = "add"
    /\ UNCHANGED <<s_textlist, cfg, pc, macrodef, ret, cursor, clipboard>>

\* m_store.clear(), with the handles dropped as reset does.
StoreClear ==
    /\ pc = "store"
    /\ tl.m_items # <<>>
    /\ tl' = [tl EXCEPT !.m_store = item_store_clear(@), !.m_items = <<>>]
    /\ args' = [args EXCEPT !.entries = <<>>]
    /\ ev' = "clear"
    /\ UNCHANGED <<s_textlist, cfg, pc, macrodef, ret, cursor, clipboard>>

StoreNext == StoreAdd \/ StoreClear

StoreSpec == StoreInit /\ [][StoreNext]_vars

\* The strings in the pages of a store, each with the page it is in.
Stored(s) ==
    UNION {{[page |-> s.m_page[g].id, off |-> s.m_page[g].data[k].off,
             len |-> Len(s.m_page[g].data[k].text) + 1] :
               k \in 1..Len(s.m_page[g].data)} : g \in 1..Len(s.m_page)}

\* The bytes of a and of b do not overlap.
Apart(a, b) ==
    a.page # b.page \/ a.off + a.len <= b.off \/ b.off + b.len <= a.off

\* C21: every string added since the last clear is read back through its
\* handle byte for byte, whatever was added after it and however many pages
\* were allocated, and it occupies bytes of its own page that no other
\* live string occupies.
C21_ArenaStable ==
    pc = "store" =>
        /\ \A k \in 1..Len(tl.m_items) :
              Deref(tl.m_store, tl.m_items[k]) = args.entries[k]
        /\ \A a \in Stored(tl.m_store) :
              /\ a.off >= page_data_offset /\ a.off + a.len <= pagesize
              /\ \A b \in Stored(tl.m_store) : a = b \/ Apart(a, b)

\* C21: three strings are live in two pages and the first is still read
\* back through its handle.
C21_SecondPage ==
    /\ pc = "store" /\ Len(tl.m_items) = 3 /\ Len(tl.m_store.m_page) = 2
    /\ tl.m_items[1].page # tl.m_items[3].page
    /\ Deref(tl.m_store, tl.m_items[1]) = args.entries[1]

\* -------------------------------------------- the column extractor on its own
\* add_entry applied to one record: args.entries holds the record, ret.m_text
\* the display text returned.
MaxFields == 4

\* The fields of a tail: empty, a, a control character (^A), a colour
\* sequence before b (ESC [ m b), a carriage return.
FieldTexts == {<<>>, <<97>>, <<1>>, <<27, 91, 109, 98>>, <<13>>}

\* The display texts: "Display Text" and the empty text.
DisplayTexts == {<<68, 105, 115, 112, 108, 97, 121, 32, 84, 101, 120, 116>>, <<>>}

FieldLists == UNION {[1..n -> FieldTexts] : n \in 0..MaxFields}

\* f1 TAB f2 ... TAB fk
RECURSIVE JoinTabs(_)
JoinTabs(fs) ==
    IF fs = <<>> THEN <<>>
    ELSE IF Len(fs) = 1 THEN fs[1]
    ELSE fs[1] \o <<9>> \o JoinTabs(Tail(fs))

\* match NUL display NUL f1 TAB f2 ... TAB fk NUL, the match text being m.
EncodedRecord(display, fs) == <<109, 0>> \o display \o <<0>> \o JoinTabs(fs) \o <<0>>

ColumnsInit ==
    /\ tl = textlist_init
    /\ s_textlist = FALSE
    /\ cfg = CHOOSE c \in Cfgs : TRUE
    /\ pc = "columns"
    /\ ev = "init"
    /\ \E display \in DisplayTexts, fs \in FieldLists :
          args = [NoArgs EXCEPT !.entries = <<EncodedRecord(display, fs)>>,
                                !.count = 1, !.has_columns = TRUE]
    /\ macrodef = FALSE
    /\ ret = NoRet
    /\ cursor = <<>>
    /\ clipboard = NullText

\* text = m_columns.add_entry(m_entries[i])
EntryAdded(added) ==
    /\ tl' = [tl EXCEPT !.m_columns = added.columns, !.m_store = added.store]
    /\ ret' = [NoRet EXCEPT !.m_text = added.display]

AddEntry ==
    /\ pc = "columns"
    /\ tl.m_columns.m_rows = <<>>
    /\ EntryAdded(add_entry(tl.m_columns, tl.m_store, args.entries[1]))
    /\ ev' = "add_entry"
    /\ UNCHANGED <<s_textlist, cfg, pc, args, macrodef, cursor, clipboard>>

\* m_columns.clear() and m_store.clear(), as reset does.
ClearColumns ==
    /\ pc = "columns"
    /\ tl.m_columns.m_rows # <<>>
    /\ tl' = [tl EXCEPT !.m_columns = addl_columns_clear(@),
                        !.m_store = item_store_clear(@)]
    /\ ret' = NoRet
    /\ ev' = "clear"
    /\ UNCHANGED <<s_textlist, cfg, pc, args, macrodef, cursor, clipboard>>

ColumnsNext == AddEntry \/ ClearColumns

ColumnsSpec == ColumnsInit /\ [][ColumnsNext]_vars

\* The normalized form of each field text: printable characters as they
\* are, ^A for the control character, the colour sequence dropped, a space
\* for the carriage return.
Normalized(f) ==
    CASE f = <<>> -> <<>>
      [] f = <<97>> -> <<97>>
      [] f = <<1>> -> <<94, 65>>
      [] f = <<27, 91, 109, 98>> -> <<98>>
      [] f = <<13>> -> <<32>>

\* The text of column col (from 0) of the row stored, empty for an unused
\* slot.
StoredColumn(col) ==
    LET text == get_col_text(tl.m_columns, tl.m_store, 0, col)
    IN IF text = NullText THEN <<>> ELSE text

\* C22: add_entry on the record match NUL display NUL f1 TAB ... TAB fk NUL
\* returns the display text and stores, for each column below the maximum
\* column count, the normalized field of that position: fields beyond the
\* maximum are dropped, slots without a field stay empty, and a record with
\* an empty tail stores no column at all.
C22_ColumnsDecoded ==
    (pc = "columns" /\ ev = "add_entry") =>
        \A display \in DisplayTexts, fs \in FieldLists :
            args.entries[1] = EncodedRecord(display, fs) =>
                /\ ret.m_text = display
                /\ Len(tl.m_columns.m_rows) = 1
                /\ \A col \in 0..(max_columns - 1) :
                      StoredColumn(col) =
                          IF col < Len(fs) THEN Normalized(fs[col + 1]) ELSE <<>>
                /\ JoinTabs(fs) = <<>> =>
                      /\ tl.m_store = item_store_init
                      /\ \A col \in 1..max_columns :
                            tl.m_columns.m_rows[1][col] = NullPtr

\* C22: the record m NUL Display Text NUL a TAB ^A TAB ESC[m b TAB a NUL, of
\* four fields, has been decoded, and its third column is b.
C22_FourFields ==
    /\ pc = "columns" /\ ev = "add_entry"
    /\ args.entries[1] =
          EncodedRecord(<<68, 105, 115, 112, 108, 97, 121, 32, 84, 101, 120, 116>>,
                        <<<<97>>, <<1>>, <<27, 91, 109, 98>>, <<97>>>>)
    /\ ret.m_text = <<68, 105, 115, 112, 108, 97, 121, 32, 84, 101, 120, 116>>
    /\ StoredColumn(2) = <<98>>

\* ------------------------------------------------- limit_cells on its own
\* limit_cells applied to one string and one limit: args.entries holds the
\* string and args.index the limit; afterwards ret.m_text is the prefix the
\* caller prints and ret.m_index the cell count reported.
MaxText == 3
MaxLimit == 4

\* A combining mark (0 cells), the letter a (1 cell), a CJK ideograph (2).
CellChars == {768, 97, 19968}

CellTexts == UNION {[1..n -> CellChars] : n \in 0..MaxText}

LimitInit ==
    /\ tl = textlist_init
    /\ s_textlist = FALSE
    /\ cfg = CHOOSE c \in Cfgs : TRUE
    /\ pc = "limit"
    /\ ev = "init"
    /\ \E text \in CellTexts, limit \in 0..MaxLimit :
          args = [NoArgs EXCEPT !.entries = <<text>>, !.index = limit]
    /\ macrodef = FALSE
    /\ ret = NoRet
    /\ cursor = <<>>
    /\ clipboard = NullText

\* char_len = limit_cells(text, limit, cell_len); print(text, char_len)
Limited(text, got) ==
    ret' = [NoRet EXCEPT !.m_text = SubSeq(text, 1, got.len), !.m_index = got.cells]

LimitCells ==
    /\ pc = "limit"
    /\ ev = "init"
    /\ Limited(args.entries[1], limit_cells(args.entries[1], args.index))
    /\ ev' = "limit_cells"
    /\ UNCHANGED <<tl, s_textlist, cfg, pc, args, macrodef, cursor, clipboard>>

\* The caller goes on to its next string.
LimitAgain ==
    /\ pc = "limit"
    /\ ev = "limit_cells"
    /\ ret' = NoRet
    /\ ev' = "init"
    /\ UNCHANGED <<tl, s_textlist, cfg, pc, args, macrodef, cursor, clipboard>>

LimitNext == LimitCells \/ LimitAgain

LimitSpec == LimitInit /\ [][LimitNext]_vars

\* The cells of a text: the sum of the cells of its characters.
RECURSIVE CellWidth(_)
CellWidth(text) ==
    IF text = <<>> THEN 0 ELSE clink_wcwidth(Head(text)) + CellWidth(Tail(text))

\* C23: limit_cells returns a prefix of whole characters of the string, the
\* cell count it reports is the cell width of that prefix, and that width
\* is at most the budget.
C23_WithinBudget ==
    (pc = "limit" /\ ev = "limit_cells") =>
        /\ \E n \in 0..Len(args.entries[1]) : ret.m_text = SubSeq(args.entries[1], 1, n)
        /\ ret.m_index = CellWidth(ret.m_text)
        /\ ret.m_index <= args.index

\* C23: a string wider than the budget has been cut to a prefix that fills
\* the budget exactly.
C23_Truncated ==
    /\ pc = "limit" /\ ev = "limit_cells"
    /\ CellWidth(args.entries[1]) > args.index
    /\ Len(ret.m_text) < Len(args.entries[1])
    /\ ret.m_index = args.index /\ args.index > 0

\* What holds of limit_cells: a prefix, its exact width, and a width below
\* the budget plus the width of the last character taken.
LimitOvershoot ==
    (pc = "limit" /\ ev = "limit_cells") =>
        /\ \E n \in 0..Len(args.entries[1]) : ret.m_text = SubSeq(args.entries[1], 1, n)
        /\ ret.m_index = CellWidth(ret.m_text)
        /\ ret.m_text # <<>> =>
              ret.m_index < Max(1, args.index) + clink_wcwidth(ret.m_text[Len(ret.m_text)])

\* C24: when activate has opened the popup and drawn its first frame, the
\* view is bottom-anchored for a negative initial index (index = count - 1,
\* top = max(0, count - visible_rows)) and centred otherwise (index = the
\* initial index, top = max(0, min(index - visible_rows / 2, count -
\* visible_rows))); the first frame draws the selected row; and an initial
\* index of count - 1 gives the index and top of the bottom-anchored view.
C24_InitialView ==
    (pc = "dispatch" /\ ev = "activate") =>
        LET n == tl.m_count
            vis == tl.m_visible_rows
            bottom == Max(0, n - vis)
        IN /\ IF args.index < 0
              THEN tl.m_index = n - 1 /\ tl.m_top = bottom
              ELSE /\ tl.m_index = args.index
                   /\ tl.m_top = Max(0, Min(args.index - (vis \div 2), n - vis))
           /\ tl.frame.kind = "list" /\ tl.m_index \in tl.frame.rows
           /\ args.index = n - 1 => tl.m_index = n - 1 /\ tl.m_top = bottom

\* C24: the directory wrapper has opened a list longer than the viewport,
\* anchored at its last entry.
C24_AnchoredAtLast ==
    /\ pc = "dispatch" /\ ev = "activate"
    /\ args.fn = "activate_directories_text_list"
    /\ tl.m_count > tl.m_visible_rows
    /\ tl.m_index = tl.m_count - 1
    /\ tl.m_top = tl.m_count - tl.m_visible_rows

\* C25: a wrapper called while no line edit is in progress (before the
\* first on_begin_line, or after an on_end_line) returns error and changes
\* nothing in the object; called during a line edit it hands the call to
\* the registered instance, which opens the popup on the caller's entries
\* or returns error for a failed precondition of activate.
C25_WrapperGuard ==
    [][(pc = "idle" /\ ev' = "activate") =>
          /\ s_textlist = tl.m_buffer
          /\ IF ~tl.m_buffer
             THEN ret'.m_result = "error" /\ tl' = tl /\ pc' = "returned"
             ELSE IF PreconditionFails(tl, args', macrodef')
             THEN ret'.m_result = "error" /\ pc' = "returned"
             ELSE /\ pc' = "dispatch" /\ tl'.m_active
                  /\ tl'.m_entries = args'.entries /\ tl'.m_count = args'.count]_vars

\* C25: the history wrapper has returned error after the line edit ended
\* (the object still has the 40 columns of that edit).
C25_ErrorAfterEndLine ==
    /\ pc = "returned" /\ ev = "activate" /\ ~s_textlist
    /\ args.fn = "activate_history_text_list"
    /\ tl.m_screen_cols = 40 /\ tl.m_visible_rows > 0
    /\ ret.m_result = "error"

\* The navigation events.
NavigationIds == {"up", "down", "home", "end", "pgup", "pgdn"}

\* C26: in free-text mode a character typed directly after a navigation
\* event becomes the whole needle, and a character typed directly after
\* another character, a find next, a find previous or a copy is appended to
\* the needle; in numeric mode the reset flag is never set.
C26_OneShotReset ==
    [][/\ (pc = "dispatch" /\ ev' = "catchall" /\ ~tl.m_win_history) =>
             \E c \in Keys :
                /\ ev \in NavigationIds => tl'.m_needle = <<c>>
                /\ ev \in {"catchall", "findnext", "findprev", "copy"} =>
                      tl'.m_needle = Append(tl.m_needle, c)
       /\ tl'.m_win_history => ~tl'.m_input_clears_needle]_vars

\* C26: a find next, a find previous or a copy has just been handled in
\* free-text mode with a non-empty needle, and the reset asked for by an
\* earlier navigation is still pending.
C26_PendingAfterFind ==
    /\ pc = "dispatch" /\ ev \in {"findnext", "findprev", "copy"}
    /\ ~tl.m_win_history /\ tl.m_needle # <<>>
    /\ tl.m_input_clears_needle
    /\ InRange(tl, tl.m_index)

\* What holds of the reset flag: navigation sets it, a typed character
\* consumes it, and find next, find previous, copy and backspace leave it
\* as it is.
ResetFlag ==
    [][(pc = "dispatch" /\ pc' = "dispatch" /\ ~tl.m_win_history
        /\ ev' \in InputIds) =>
          /\ ev' \in NavigationIds => tl'.m_input_clears_needle
          /\ ev' = "catchall" =>
                /\ ~tl'.m_input_clears_needle
                /\ \E c \in Keys :
                      tl'.m_needle = IF tl.m_input_clears_needle THEN <<c>>
                                     ELSE Append(tl.m_needle, c)
          /\ ev' \in {"findnext", "findprev", "copy", "backspace"} =>
                tl'.m_input_clears_needle = tl.m_input_clears_needle]_vars

\* The text starts with the needle, letter case ignored.
StartsWith(text, needle) ==
    /\ Len(needle) <= Len(text)
    /\ \A i \in 1..Len(needle) : FoldChar(1, text[i]) = FoldChar(1, needle[i])

\* The k-th row before the selected one, circularly.
RowBefore(t, k) == (t.m_index - k) % t.m_count

\* C27: in windowed-history mode a typed character that is not a digit
\* becomes the whole needle, and the selection moves to the nearest row
\* before the selected one (circularly, the selected row excluded) whose
\* primary text starts with the needle, letter case ignored; when no other
\* row does, the index is unchanged.
C27_PrefixSearch ==
    [][(pc = "dispatch" /\ ev' = "catchall" /\ tl.m_win_history
        /\ ~tl'.m_needle_is_number) =>
          LET hits == {k \in 1..(tl.m_count - 1) :
                          StartsWith(PrimaryText(tl, RowBefore(tl, k)), tl'.m_needle)}
          IN /\ \E c \in Keys : ~(c >= 48 /\ c <= 57) /\ tl'.m_needle = <<c>>
             /\ tl'.m_index = IF hits # {} THEN RowBefore(tl, Least(hits))
                              ELSE tl.m_index]_vars

\* C27: the letter A has been typed in windowed-history mode: the needle is
\* A and the selected row is the last of three, a^A, which starts with a.
C27_WrappedToPrefix ==
    /\ pc = "dispatch" /\ ev = "catchall" /\ tl.m_win_history
    /\ tl.m_needle = <<65>> /\ ~tl.m_needle_is_number
    /\ tl.m_count = 3 /\ tl.m_index = 2
    /\ StartsWith(PrimaryText(tl, 2), tl.m_needle)

\* C28: when activate opens the popup, the needle mode is the one the
\* history_mode argument selects (numeric for 2, free text otherwise) and
\* visible_rows is what the layout gives for that mode and the screen; from
\* then until activate returns, no input and no resize changes either.
C28_ModeFixed ==
    [][/\ (pc = "idle" /\ pc' = "dispatch") =>
             /\ tl'.m_win_history = (args'.history_mode = 2)
             /\ tl'.m_visible_rows =
                   Min(IF args'.history_mode # 0 THEN 20 ELSE 10,
                       (tl.m_screen_rows \div 2) - 4)
       /\ (pc = "dispatch" /\ pc' # "returned") =>
             /\ tl'.m_win_history = tl.m_win_history
             /\ tl'.m_visible_rows = tl.m_visible_rows]_vars

\* C28: a popup in numeric mode has been cancelled by a resize to a screen
\* that has room for fewer rows, and still has its mode and its rows.
C28_ResizedInNumericMode ==
    /\ pc = "leaving" /\ ev = "on_terminal_resize"
    /\ tl.m_win_history
    /\ tl.m_visible_rows > (tl.m_screen_rows \div 2) - 4

\* activate is sequential code: once the dispatcher has returned, the rest
\* of activate runs.
FairSpec == Spec /\ WF_vars(ActivateReturn)

\* C29: a terminal input (Enter, Insert, Escape) closes the popup and ends
\* the dispatch loop, and activate then returns: it draws the final cleared
\* frame and unlocks and shows the cursor once, after the one hide and lock
\* of the start.  Every other input leaves the popup open and asks for the
\* next input.
C29_TerminalReturns ==
    /\ [][/\ (pc = "dispatch" /\ ev' \in ClosingIds) =>
                (pc' = "leaving" /\ ~tl'.m_active)
          /\ (pc = "dispatch" /\ ev' \in InputIds \ ClosingIds) =>
                (pc' = "dispatch" /\ tl'.m_active)
          /\ pc = "leaving" =>
                /\ pc' = "returned"
                /\ tl'.frame.kind = "cleared"
                /\ cursor' = <<"hide", "lock", "unlock", "show">>]_vars
    /\ (pc = "leaving") ~> (pc = "returned")

\* C29: activate has returned after Insert, with the final frame drawn and
\* the cursor shown again.
C29_ReturnedAfterInsert ==
    /\ pc = "returned" /\ ev = "insert"
    /\ ret.m_result = "select"
    /\ tl.frame.kind = "cleared"
    /\ cursor = <<"hide", "lock", "unlock", "show">>

\* C30: handling an input always terminates: no search (find next, find
\* previous, the incremental search after a typed character or a
\* backspace, the backward prefix search, the history-number lookup) goes
\* round the list without end.
C30_InputTerminates ==
    [][(pc = "dispatch" /\ ev' \in InputIds) => pc' \in {"dispatch", "leaving"}]_vars

\* C30: find next has gone round a list of three rows, none of which
\* contains the needle, and has returned.
C30_FullCircle ==
    /\ pc = "dispatch" /\ ev = "findnext" /\ ~tl.m_win_history
    /\ tl.m_count = MaxCount /\ InRange(tl, tl.m_index)
    /\ tl.m_needle # <<>>
    /\ \A i \in 0..(tl.m_count - 1) : ~RowContains(tl, tl.m_needle, i)

\* ------------------------------------------- the box of a frame on its own
\* The width and the placement update_display computes for one frame: tl
\* holds a popup with the members the computation reads, args.index the
\* cursor column csbi.dwCursorPosition.X; afterwards tl.frame holds longest,
\* col_width and x.

\* m_longest: an empty item, short items, items around the floor of 40 cells
\* and items wider than a screen of 40 or 80 columns.
LayoutLongest == {0, 3, 37, 38, 40, 41, 90}

\* m_has_columns and the widths of the columns: no columns, columns that are
\* all empty, one column, an empty column before two others, three columns.
LayoutColumns ==
    {<<FALSE, <<0, 0, 0>>>>, <<TRUE, <<0, 0, 0>>>>, <<TRUE, <<5, 0, 0>>>>,
     <<TRUE, <<0, 4, 6>>>>, <<TRUE, <<2, 3, 4>>>>}

\* m_count: the last row's number has 1 digit, or 2 (3 with m_infos).
LayoutCounts == {3, 10}

\* m_screen_cols: the narrowest screen that shows the list, screens below and
\* at 40 columns, screens where the margin is 1 and 2 columns, a wide one.
LayoutScreenCols == {21, 39, 40, 42, 45, 80}

\* The popups: activate_text_list with and without columns,
\* activate_history_text_list with and without infos.
LayoutPopups ==
    {[textlist_init EXCEPT !.m_active = TRUE, !.m_count = n, !.m_longest = l,
                           !.m_has_columns = c[1], !.m_columns.m_longest = c[2],
                           !.m_screen_cols = w, !.m_visible_rows = 10] :
        n \in LayoutCounts, l \in LayoutLongest, c \in LayoutColumns,
        w \in LayoutScreenCols}
    \cup
    {[textlist_init EXCEPT !.m_active = TRUE, !.m_count = n, !.m_longest = l,
                           !.m_history_mode = TRUE, !.m_reverse = TRUE,
                           !.m_infos = IF i THEN Infos(n) ELSE <<>>,
                           !.m_screen_cols = w, !.m_visible_rows = 20] :
        n \in LayoutCounts, l \in LayoutLongest, i \in BOOLEAN,
        w \in LayoutScreenCols}

LayoutInit ==
    /\ tl \in LayoutPopups
    /\ s_textlist = TRUE
    /\ cfg = CHOOSE c \in Cfgs : TRUE
    /\ pc = "layout"
    /\ ev = "init"
    /\ \E x \in 0..(tl.m_screen_cols - 1) : args = [NoArgs EXCEPT !.index = x]
    /\ macrodef = FALSE
    /\ ret = NoRet
    /\ cursor = <<>>
    /\ clipboard = NullText

\* The box update_display draws for the cursor column x.
Box(t, x) ==
    [kind |-> "box", border |-> TRUE, rows |-> {}, down |-> 0, up |-> 0,
     column |-> "untouched", screen |-> <<>>, cells |-> <<>>,
     longest |-> longest(t), col_width |-> col_width(t), x |-> left_column(t, x)]

Layout ==
    /\ pc = "layout"
    /\ ev = "init"
    /\ tl' = [tl EXCEPT !.frame = Box(tl, args.index)]
    /\ ev' = "update_display"
    /\ UNCHANGED <<s_textlist, cfg, pc, args, macrodef, ret, cursor, clipboard>>

\* The next frame: the box is computed anew.
LayoutAgain ==
    /\ pc = "layout"
    /\ ev = "update_display"
    /\ tl' = [tl EXCEPT !.frame = NoFrame]
    /\ ev' = "init"
    /\ UNCHANGED <<s_textlist, cfg, pc, args, macrodef, ret, cursor, clipboard>>

LayoutNext == Layout \/ LayoutAgain

LayoutSpec == LayoutInit /\ [][LayoutNext]_vars

\* The number of decimal digits of n.
Digits(n) == CHOOSE d \in 1..9 : n < 10 ^ d /\ (d > 1 => n >= 10 ^ (d - 1))

\* G: the gutter of the history numbers, the digits of the last row's number
\* and the two cells of ": "; nothing outside history mode.
Gutter(t) ==
    IF t.m_history_mode
    THEN Digits(IF t.m_infos # <<>> THEN SequenceNumber(t, t.m_count - 1) ELSE t.m_count) + 2
    ELSE 0

\* The sum over the non-empty columns in cols of 2 + the column's width.
RECURSIVE ColumnCells(_, _)
ColumnCells(t, cols) ==
    IF cols = {} THEN 0
    ELSE LET c == CHOOSE c \in cols : TRUE
         IN 2 + t.m_columns.m_longest[c] + ColumnCells(t, cols \ {c})

NonEmptyColumns(t) == {c \in 1..max_columns : t.m_columns.m_longest[c] # 0}

\* The screen width left for the box.
Available(t) ==
    IF t.m_screen_cols < 40 THEN t.m_screen_cols
    ELSE IF t.m_screen_cols - 4 > 40 THEN t.m_screen_cols - 4 ELSE 40

BoxDrawn == pc = "layout" /\ ev = "update_display"

\* C31 as stated: the content width of a frame is max(L + G, 40) plus, for
\* every non-empty column, 2 + the column's width, and the box width is the
\* content width + 2, at most the available screen width.
C31_FloorThenColumns ==
    BoxDrawn =>
        LET content == (IF tl.m_longest + Gutter(tl) > 40
                        THEN tl.m_longest + Gutter(tl) ELSE 40)
                       + ColumnCells(tl, NonEmptyColumns(tl))
        IN /\ tl.frame.longest = content
           /\ tl.frame.col_width =
                 (IF content + 2 < Available(tl) THEN content + 2 ELSE Available(tl))

\* C31: the content width of a frame is max(L + G + C, 40), where L is the
\* widest primary item, G the gutter of the history numbers (0 outside
\* history mode) and C the sum over the non-empty columns of 2 + the column's
\* width: the floor of 40 applies to the whole row. The box width is the
\* content width + 2, at most the available screen width (screen_cols below
\* 40 columns, else max(40, screen_cols - 4)).
C31_ContentWidth ==
    BoxDrawn =>
        LET needed == tl.m_longest + Gutter(tl) + ColumnCells(tl, NonEmptyColumns(tl))
            content == IF needed > 40 THEN needed ELSE 40
        IN /\ tl.frame.longest = content
           /\ tl.frame.col_width =
                 (IF content + 2 < Available(tl) THEN content + 2 ELSE Available(tl))

\* A box has been laid out for rows whose items are below 40 cells and which
\* pass 40 cells with their three columns, on a screen that clamps the box.
C31_ColumnsPassFloor ==
    /\ BoxDrawn
    /\ tl.m_has_columns /\ Cardinality(NonEmptyColumns(tl)) = max_columns
    /\ tl.m_longest = 37
    /\ tl.frame.longest = 37 + 15
    /\ tl.frame.col_width = 40 /\ tl.m_screen_cols = 40

\* C32: for every screen wider than 20 columns, every cursor column of the
\* screen and every box width the renderer computes, the left column x of
\* the box is at least 0 and x + the box width is at most screen_cols.
C32_BoxOnScreen ==
    (BoxDrawn /\ tl.m_screen_cols > min_screen_cols) =>
        /\ 0 <= tl.frame.x
        /\ tl.frame.x + tl.frame.col_width <= tl.m_screen_cols

\* A box narrower than the screen has been placed for a cursor in the last
\* column: it was moved left, to end at the right margin.
C32_PushedLeft ==
    /\ BoxDrawn
    /\ tl.m_screen_cols = 80 /\ args.index = tl.m_screen_cols - 1
    /\ tl.frame.col_width = 42
    /\ tl.frame.x + tl.frame.col_width = tl.m_screen_cols - 2

\* The events that search: find next, find previous, a typed character and
\* backspace.
SearchIds == {"findnext", "findprev", "catchall", "backspace"}

\* Row i of the popup t is one the search of t's mode stops at for the
\* needle of t: a row that contains the needle; in windowed-history mode the
\* row of the number typed, or a row that starts with the needle.
Hit(t, i) ==
    /\ InRange(t, i)
    /\ IF ~t.m_win_history THEN RowContains(t, t.m_needle, i)
       ELSE IF t.m_needle_is_number
       THEN t.m_needle # <<>>
            /\ (IF t.m_infos # <<>> THEN SequenceNumber(t, i) ELSE i + 1) = atoi(t.m_needle)
       ELSE t.m_needle # <<>> /\ StartsWith(PrimaryText(t, i), t.m_needle)

\* An input has drawn a frame of the list.
FrameStep == pc = "dispatch" /\ ev' \in InputIds /\ tl'.frame.kind = "list"

\* The frame of the step is a forced full redraw: the top has changed, or a
\* search or a numeric jump has landed on the row now selected.
ForcedStep == tl'.m_top # tl.m_top \/ (ev' \in SearchIds /\ Hit(tl', tl'.m_index))

\* An override title is shown in the frame of the step, or was shown in the
\* frame before it.
TitledStep == tl'.m_override_title # <<>> \/ tl.m_has_override_title

\* C33: a frame drawn for an input redraws the border only when it is a
\* forced full redraw (the top changed, a search or a numeric jump landed)
\* or an override title is shown now or was shown in the previous frame; in
\* every other frame exactly the previously selected row and the newly
\* selected row are rewritten (an index that is no row of the list has no
\* row to rewrite).  The first frame of an activation is a full redraw.
C33_MinimalRedraw ==
    [][/\ FrameStep =>
             /\ tl'.frame.border => (ForcedStep \/ TitledStep)
             /\ ~(ForcedStep \/ TitledStep) =>
                   tl'.frame.rows = {i \in {tl.m_index, tl'.m_index} : InRange(tl, i)}
       /\ (pc = "idle" /\ pc' = "dispatch") =>
             /\ tl'.frame.kind = "list" /\ tl'.frame.border
             /\ tl'.frame.rows = {i \in tl'.m_top..(tl'.m_top + tl'.m_visible_rows - 1) :
                                     i < tl'.m_count}]_vars

\* A down key has moved the selection within the view, no title shown: the
\* frame has rewritten the two rows and has not drawn the border.
C33_TwoRows ==
    /\ pc = "dispatch" /\ ev = "down" /\ tl.frame.kind = "list"
    /\ ~tl.frame.border
    /\ tl.frame.rows = {tl.m_index - 1, tl.m_index}
    /\ tl.m_count = 3 /\ tl.m_visible_rows >= 2

\* The rows of the list in view: top, top + 1, ... up to visible_rows rows,
\* as far as the list goes.
InView(t) == {i \in t.m_top..(t.m_top + t.m_visible_rows - 1) : i < t.m_count}

\* The screen shows the list as it is: screen row r shows item top + r, and
\* the highlighted row is the selected one and no other.
ScreenFresh ==
    /\ Len(tl.frame.screen) = Cardinality(InView(tl))
    /\ \A r \in 0..(Len(tl.frame.screen) - 1) :
          /\ tl.frame.screen[r + 1].item = tl.m_top + r
          /\ tl.frame.screen[r + 1].selected <=> (tl.m_top + r = tl.m_index)

\* C34: while a popup is open, after every frame each visible screen row r
\* shows item top + r and exactly the selected row is highlighted; and an
\* input that changes top draws a frame that rewrites every row in view.
C34_NoStaleRows ==
    [][/\ pc' = "dispatch" => ScreenFresh'
       /\ (pc = "dispatch" /\ pc' = "dispatch" /\ tl'.m_top # tl.m_top) =>
             /\ tl'.frame.kind = "list"
             /\ tl'.frame.rows = InView(tl')]_vars

\* A page down has scrolled a list of three rows shown two at a time: both
\* rows in view were rewritten and the lower one is highlighted.
C34_Scrolled ==
    /\ pc = "dispatch" /\ ev = "pgdn" /\ tl.frame.kind = "list"
    /\ tl.m_count = 3 /\ tl.m_visible_rows = 2 /\ tl.m_top = 1 /\ tl.m_index = 2
    /\ tl.frame.rows = {1, 2}
    /\ tl.frame.screen = <<[item |-> 1, selected |-> FALSE], [item |-> 2, selected |-> TRUE]>>

\* --------------------------------------- frames of lists with wide items
\* A popup opened by activate_text_list on a narrow or a wide screen, with
\* items as wide as the box: the navigation keys draw its frames, and the
\* code after the dispatcher draws the final one.

\* n times the letter a.
Letters(n) == [k \in 1..n |-> 97]

\* 18 letters and a CJK ideograph (20 cells), 19 letters, and ab.
WideItem == Letters(18) \o <<19968>>
FullItem == Letters(19)
ShortItem == <<97, 98>>

\* An entry with columns: match m, display ab, one column of 14 letters and
\* a CJK ideograph.
WideColumnEntry == <<109, 0>> \o ShortItem \o <<0>> \o Letters(14) \o <<19968, 0>>

\* The lists: <<has_columns, entries>>.
WideLists ==
    {<<FALSE, <<ShortItem, WideItem, FullItem>>>>,
     <<FALSE, <<FullItem, ShortItem, ShortItem>>>>,
     <<FALSE, <<WideItem, WideItem, ShortItem>>>>,
     <<TRUE, <<EncodedEntry(2), WideColumnEntry, EncodedEntry(1)>>>>}

\* Terminal sizes <<columns, rows>>: 21 and 40 columns, where the box is as
\* wide as the screen, with 2 and with 3 rows in view, and 80 columns.
WideScreens == {<<21, 12>>, <<21, 60>>, <<40, 12>>, <<80, 60>>}

\* The popup after activate_text_list("T", entries, 3, current, has_columns)
\* has opened it.
Opened(size, list, current) ==
    activate(on_begin_line(textlist_init, size[1], size[2]),
             Args("activate_text_list", <<84>>, list[2], 3, current, FALSE, 0, <<>>, list[1]),
             FALSE).t

FrameInit ==
    /\ \E size \in WideScreens, list \in WideLists, current \in 0..2 :
          tl = Opened(size, list, current)
    /\ s_textlist = TRUE
    /\ cfg \in Cfgs
    /\ pc = "frames"
    /\ ev = "activate"
    /\ args = NoArgs
    /\ macrodef = FALSE
    /\ ret = NoRet
    /\ cursor = <<"hide", "lock">>
    /\ clipboard = NullText

\* The dispatcher delivers a navigation key.
FrameInput ==
    /\ pc = "frames"
    /\ \E id \in {"up", "down", "home", "end", "pgup", "pgdn"} :
          /\ tl' = on_input(Entering(tl), cfg, id, 0, FALSE, <<>>).t
          /\ ev' = id
    /\ UNCHANGED <<s_textlist, cfg, pc, args, macrodef, ret, cursor, clipboard>>

\* The dispatcher returns and activate draws the final frame.
FrameLeave ==
    /\ pc = "frames"
    /\ Returned(activate_leave(Entering(tl)))
    /\ pc' = "returned"
    /\ ev' = "abort"
    /\ cursor' = cursor \o <<"unlock", "show">>
    /\ UNCHANGED <<s_textlist, cfg, args, macrodef, clipboard>>

FrameNext == FrameInput \/ FrameLeave

FrameSpec == FrameInit /\ [][FrameNext]_vars

\* The rows of the frame that pass the right edge of the screen when the
\* cursor was in column x: the terminal wraps each onto the next line.
Wrapped(t, x) ==
    {i \in DOMAIN t.frame.cells : left_column(t, x) + t.frame.cells[i] > t.m_screen_cols}

\* The lines the frame of t has moved the cursor down: by its line ends and
\* by the rows that wrapped.
LinesDown(t, x) == t.frame.down + Cardinality(Wrapped(t, x))

\* C35: every frame drawn, of the list or the final cleared one, moves the
\* cursor down 1 line, plus one per list row in view, plus 1 when the border
\* is drawn, moves it up by as many lines as it moved it down, whatever the
\* cursor column was, and puts the cursor back in the saved column.
C35_CursorRestored ==
    (tl.frame.kind \in {"list", "cleared"}) =>
        /\ tl.frame.down =
              1 + (IF tl.frame.kind = "list"
                   THEN Cardinality(InView(tl)) + (IF tl.frame.border THEN 1 ELSE 0)
                   ELSE 0)
        /\ \A x \in 0..(tl.m_screen_cols - 1) : LinesDown(tl, x) = tl.frame.up
        /\ tl.frame.column = "restored"

\* A frame on a screen of 21 columns has rewritten the row of the item of 18
\* letters and an ideograph: the row has 22 cells and wraps.
C35_RowWrapped ==
    /\ pc = "frames" /\ ev = "down" /\ tl.frame.kind = "list"
    /\ tl.m_screen_cols = 21 /\ ~tl.m_has_columns
    /\ PrimaryText(tl, tl.m_index) = WideItem
    /\ tl.frame.cells[tl.m_index] = 22
    /\ LinesDown(tl, 0) = tl.frame.up + 1

\* C36: every add of the item store, for every string length, puts the
\* string with its terminator at bytes that lie inside one page, after the
\* page's header and before the page's end; it takes a new page exactly when
\* the string with its terminator does not fit in the room left in the
\* current page, and otherwise writes where the current page's free space
\* starts.
C36_AddInsidePage ==
    [][(pc = "store" /\ ev' = "add" /\ Len(tl'.m_items) = Len(tl.m_items) + 1) =>
          LET len == Len(args'.entries[Len(args'.entries)]) + 1
              p == tl'.m_items[Len(tl'.m_items)]
              room == tl.m_store.m_back - tl.m_store.m_front
              fresh == Len(tl'.m_store.m_page) = Len(tl.m_store.m_page) + 1
          IN /\ p.off >= page_data_offset
             /\ p.off + len <= pagesize
             /\ tl'.m_store.m_front <= pagesize
             /\ fresh <=> (len > room)
             /\ p.page = tl'.m_store.m_page[1].id
             /\ ~fresh => (p.off = tl.m_store.m_front /\ tl'.m_store.m_page[1].id = tl.m_store.m_page[1].id)]_vars

\* A string one byte longer than a page's room has been added: the page was
\* taken for it and the write ended past the end of the page.
C36_PastPageEnd ==
    /\ pc = "store" /\ ev = "add" /\ tl.m_items # <<>>
    /\ Len(args.entries[Len(args.entries)]) + 1 > pagesize - page_data_offset
    /\ tl.m_items[Len(tl.m_items)].off = page_data_offset
    /\ tl.m_store.m_front = pagesize + 1

====
